---- MODULE Spec2Model ----
(***************************************************************************)
(* Model of the rugby video pipeline: PipelineRunner (core/pipeline_runner) *)
(* with the scanner (ingest/video_finder) and the store adapter             *)
(* (indexing/index_manager).  Paths are sequences of one-character strings, *)
(* so that splitext, rsplit, lower, lstrip and sorted are computed as       *)
(* Python computes them.                                                    *)
(***************************************************************************)
EXTENDS Integers, Sequences, FiniteSets, TLC

\* ------------------------------------------------------------------ bounds
\* largest number of video files on disk when the first run starts
MaxFiles == 2
\* number of consecutive runs of PipelineRunner.run over the same disk and store
MaxRuns == 2
\* largest configured conversion.parallel_workers
MaxWorkers == 2
\* longest list handed to a stage that is called directly
MaxBatch == 2
\* number of direct vectorize_and_store_summary calls
MaxUpserts == 3
\* most choices in one response of the provider
MaxChoices == 2

\* ------------------------------------------------------- strings and paths
\* code points of the characters that occur in the modelled paths
CharCode ==
  [c \in {".", "/", "4", "B", "M", "P", "_", "a", "b", "c", "d", "e", "i",
          "k", "m", "n", "o", "p", "r", "s", "t", "v", "w"} |->
     CASE c = "." -> 46 [] c = "/" -> 47 [] c = "4" -> 52
       [] c = "B" -> 66 [] c = "M" -> 77 [] c = "P" -> 80 [] c = "_" -> 95
       [] c = "a" -> 97 [] c = "b" -> 98 [] c = "c" -> 99 [] c = "d" -> 100
       [] c = "e" -> 101 [] c = "i" -> 105 [] c = "k" -> 107 [] c = "m" -> 109
       [] c = "n" -> 110 [] c = "o" -> 111 [] c = "p" -> 112 [] c = "r" -> 114
       [] c = "s" -> 115 [] c = "t" -> 116 [] c = "v" -> 118 [] c = "w" -> 119]

\* str.lower() on one character
LowerChar(c) ==
  CASE c = "B" -> "b" [] c = "M" -> "m" [] c = "P" -> "p" [] OTHER -> c

\* str.lower()
Lower(s) == [i \in 1..Len(s) |-> LowerChar(s[i])]

\* str.rfind(c), 1-based; 0 when c does not occur
RFind(s, c) ==
  IF \E i \in 1..Len(s) : s[i] = c
    THEN CHOOSE i \in 1..Len(s) : s[i] = c /\ \A j \in (i+1)..Len(s) : s[j] # c
    ELSE 0

\* str.lstrip(".")
LStripDot(s) ==
  IF \E i \in 1..Len(s) : s[i] # "."
    THEN SubSeq(s, CHOOSE i \in 1..Len(s) :
                     s[i] # "." /\ \A j \in 1..(i-1) : s[j] = ".", Len(s))
    ELSE <<>>

\* str.endswith(suffix)
EndsWith(s, suffix) ==
  /\ Len(suffix) <= Len(s)
  /\ SubSeq(s, Len(s) - Len(suffix) + 1, Len(s)) = suffix

\* str.startswith(prefix)
StartsWith(s, prefix) ==
  /\ Len(prefix) <= Len(s)
  /\ SubSeq(s, 1, Len(prefix)) = prefix

\* os.path.splitext: <<root, ext>>, ext with its dot; a basename made of
\* leading dots only has no extension
SplitExt(p) ==
  LET sepIndex == RFind(p, "/")
      dotIndex == RFind(p, ".")
  IN IF dotIndex > sepIndex /\ \E k \in (sepIndex+1)..(dotIndex-1) : p[k] # "."
       THEN <<SubSeq(p, 1, dotIndex - 1), SubSeq(p, dotIndex, Len(p))>>
       ELSE <<p, <<>>>>

\* vpath.rsplit(".", 1)[0]
RSplitDot(p) ==
  IF RFind(p, ".") = 0 THEN p ELSE SubSeq(p, 1, RFind(p, ".") - 1)

\* os.path.basename
Basename(p) == SubSeq(p, RFind(p, "/") + 1, Len(p))

\* a < b for str: lexicographic order by code point
StrLess(a, b) ==
  \E k \in 1..Len(b) :
    /\ \A j \in 1..(k - 1) : j <= Len(a) /\ a[j] = b[j]
    /\ k > Len(a) \/ CharCode[a[k]] < CharCode[b[k]]

\* sorted(reverse=True): the k-th is the one with k - 1 above it
SortedDown(S) ==
  [k \in 1..Cardinality(S) |->
     CHOOSE x \in S : Cardinality({y \in S : StrLess(x, y)}) = k - 1]

\* sorted() of a collection of distinct str: the k-th is the one with k - 1 below it
Sorted(S) ==
  [k \in 1..Cardinality(S) |->
     CHOOSE x \in S : Cardinality({y \in S : StrLess(y, x)}) = k - 1]

\* the elements of a sequence, and how often a value occurs in it
Range(s) == {s[i] : i \in 1..Len(s)}
Count(s, x) == Cardinality({i \in 1..Len(s) : s[i] = x})


\* ------------------------------------------------------------- the universe
\* "/v/a.mp4", "/v/B.MP4", "/v/c.avi", "/v/c_converted.mp4", "/w/d.mkv"
P_a == <<"/", "v", "/", "a", ".", "m", "p", "4">>
P_B == <<"/", "v", "/", "B", ".", "M", "P", "4">>
P_c == <<"/", "v", "/", "c", ".", "a", "v", "i">>
P_cc == <<"/", "v", "/", "c", "_", "c", "o", "n", "v", "e", "r", "t", "e", "d",
          ".", "m", "p", "4">>
P_d == <<"/", "w", "/", "d", ".", "m", "k", "v">>
VideoFiles == {P_a, P_B, P_c, P_cc, P_d}
\* "/v/a.MP4": beside "/v/a.mp4" it is a second video with the same stem
P_A == <<"/", "v", "/", "a", ".", "M", "P", "4">>

\* every list of at most n elements of S
SeqsUpTo(S, n) == UNION {[1..k -> S] : k \in 0..n}

VARIABLES
  disk,             \* the video files that exist under the source roots
  store,            \* rows of the videos table: [path, summary, embedding]
  parallel_workers, \* config.conversion_config.parallel_workers
  cvpc,             \* position inside convert_videos
  cvIn,             \* its argument video_files
  fut,              \* per input: state of its conversion, what the encoder
                    \* did (o) and what process_one gave (out)
  results,          \* its local list results
  encoded           \* history: the inputs the encoder was invoked on

cvVars == <<cvpc, cvIn, fut, results>>

\* ----------------------------------------------------------- convert_videos
WorkersPlusOne(pw) == IF pw > 1 THEN pw + 1 ELSE 2

\* workers = max(1, int(parallel_workers or 1))
Workers(pw) ==
  LET orOne == IF pw = 0 THEN 1 ELSE pw
  IN IF orOne > 1 THEN orOne ELSE 1

\* ext = os.path.splitext(vpath)[1].lower().lstrip(".")
Ext(vpath) == LStripDot(Lower(SplitExt(vpath)[2]))

IsCanonicalCaseSensitive(vpath) == LStripDot(SplitExt(vpath)[2]) = <<"m", "p", "4">>

\* if ext == "mp4"
IsCanonical(vpath) == Ext(vpath) = <<"m", "p", "4">>

\* output_file keeping the extension of the input
OutputFileSameExt(vpath) ==
  RSplitDot(vpath) \o <<"_", "c", "o", "n", "v", "e", "r", "t", "e", "d">>
    \o SplitExt(vpath)[2]

\* output_file = vpath.rsplit(".", 1)[0] + "_converted.mp4"
OutputFile(vpath) ==
  RSplitDot(vpath) \o <<"_", "c", "o", "n", "v", "e", "r", "t", "e", "d",
                        ".", "m", "p", "4">>

\* what subprocess.run(ffmpeg_cmd, check=True) can do: return, raise
\* CalledProcessError (non-zero exit), raise FileNotFoundError (no binary)
EncoderOutcomes == {"ok", "nonzero", "missing"}

\* the outcomes open to one call of process_one
OutcomesFor(vpath) == IF IsCanonical(vpath) THEN {"passthrough"} ELSE EncoderOutcomes

ProcessOneKeepFailed(vpath, outcome) ==
  IF IsCanonical(vpath) THEN [kind |-> "path", val |-> vpath]
  ELSE IF outcome = "missing" THEN [kind |-> "exc", val |-> <<>>]
  ELSE [kind |-> "path", val |-> OutputFile(vpath)]

\* process_one: the returned path, None, or the exception that escapes it
\* (only CalledProcessError is caught)
ProcessOne(vpath, outcome) ==
  IF IsCanonical(vpath) THEN [kind |-> "path", val |-> vpath]
  ELSE IF outcome = "ok" THEN [kind |-> "path", val |-> OutputFile(vpath)]
  ELSE IF outcome = "nonzero" THEN [kind |-> "none", val |-> <<>>]
  ELSE [kind |-> "exc", val |-> <<>>]

\* the encoder writes output_file when it succeeds (-y overwrites)
DiskAfter(d, vpath, outcome) ==
  IF outcome = "ok" THEN d \cup {OutputFile(vpath)} ELSE d

\* the encoder is invoked for every input that is not passed through
EncodedAfter(log, vpath, outcome) ==
  IF outcome = "passthrough" THEN log ELSE log \cup {vpath}

\* if out: results.append(out)
AppendIfPath(res, r) == IF r.kind = "path" /\ r.val # <<>> THEN Append(res, r.val) ELSE res

Pending == {i \in 1..Len(cvIn) : fut[i].st = "pending"}
Running == {i \in 1..Len(cvIn) : fut[i].st = "running"}
Finished == {i \in 1..Len(cvIn) : fut[i].st = "finished"}
NextPending == CHOOSE i \in Pending : \A j \in Pending : i <= j

\* entry of convert_videos: results = [], then the choice of the mode
ConvertBegin ==
  /\ cvpc = "called"
  /\ results' = <<>>
  /\ fut' = [i \in 1..Len(cvIn) |-> [st |-> "pending", o |-> "none", out |-> [kind |-> "none", val |-> <<>>]]]
  /\ cvpc' = IF Workers(parallel_workers) = 1 \/ Len(cvIn) <= 1 THEN "single" ELSE "pooled"
  /\ UNCHANGED <<cvIn, disk, encoded>>

\* one iteration of "for vf in video_files" on the calling thread
ConvertSingleStep ==
  /\ cvpc = "single"
  /\ Pending # {}
  /\ \E i \in {NextPending} : \E o \in OutcomesFor(cvIn[i]) :
     \E r \in {ProcessOne(cvIn[i], o)} :
       /\ disk' = DiskAfter(disk, cvIn[i], o)
       /\ encoded' = EncodedAfter(encoded, cvIn[i], o)
       /\ fut' = [fut EXCEPT ![i] = [st |-> "collected", o |-> o, out |-> r]]
       /\ IF r.kind = "exc"
            THEN cvpc' = "raised" /\ UNCHANGED results
            ELSE cvpc' = cvpc /\ results' = AppendIfPath(results, r)
  /\ UNCHANGED cvIn

\* the loop is over: return results
ConvertSingleReturn ==
  /\ cvpc = "single"
  /\ Pending = {}
  /\ cvpc' = "returned"
  /\ UNCHANGED <<cvIn, fut, results, disk, encoded>>

\* a pool thread takes the oldest queued task
WorkerStart ==
  /\ cvpc \in {"pooled", "pooled_exc"}
  /\ Pending # {}
  /\ Cardinality(Running) < Workers(parallel_workers)
  /\ \E i \in {NextPending} : fut' = [fut EXCEPT ![i].st = "running"]
  /\ UNCHANGED <<cvpc, cvIn, results, disk, encoded>>

\* a pool thread finishes process_one: the future holds its result or exception
WorkerFinish ==
  /\ cvpc \in {"pooled", "pooled_exc"}
  /\ \E i \in Running : \E o \in OutcomesFor(cvIn[i]) :
       /\ disk' = DiskAfter(disk, cvIn[i], o)
       /\ encoded' = EncodedAfter(encoded, cvIn[i], o)
       /\ fut' = [fut EXCEPT ![i] = [st |-> "finished", o |-> o,
                                    out |-> ProcessOne(cvIn[i], o)]]
  /\ UNCHANGED <<cvpc, cvIn, results>>

\* for fut in as_completed(future_map): out = fut.result(); a stored exception
\* is raised again and leaves the loop, into the executor's shutdown(wait=True)
Collect ==
  /\ cvpc = "pooled"
  /\ \E i \in Finished :
       /\ fut' = [fut EXCEPT ![i].st = "collected"]
       /\ IF fut[i].out.kind = "exc"
            THEN cvpc' = "pooled_exc" /\ UNCHANGED results
            ELSE cvpc' = cvpc /\ results' = AppendIfPath(results, fut[i].out)
  /\ UNCHANGED <<cvIn, disk, encoded>>

PoolExitEarly ==
  /\ cvpc \in {"pooled", "pooled_exc"} /\ Pending = {} /\ Running = {}
  /\ cvpc' = IF cvpc = "pooled" THEN "returned" ELSE "raised"
  /\ UNCHANGED <<cvIn, fut, results, disk, encoded>>

\* leaving the with block: every submitted task has run; return or re-raise
PoolExit ==
  /\ \/ cvpc = "pooled" /\ \A i \in 1..Len(cvIn) : fut[i].st = "collected"
     \/ cvpc = "pooled_exc" /\ Pending = {} /\ Running = {}
  /\ cvpc' = IF cvpc = "pooled" THEN "returned" ELSE "raised"
  /\ UNCHANGED <<cvIn, fut, results, disk, encoded>>

ConvertStep ==
  \/ ConvertBegin
  \/ ConvertSingleStep
  \/ ConvertSingleReturn
  \/ WorkerStart
  \/ WorkerFinish
  \/ Collect
  \/ PoolExit


\* ------------------------------------------------------------------- store
VARIABLES
  sources,             \* config.video_sources.sources: [path, watch_patterns]
  ai_provider,         \* config.indexing_config.ai_provider
  pc,                  \* position of PipelineRunner.run
  run,                 \* number of runs started so far
  srcIdx,              \* run: index of the source scanned next
  all_video_files,     \* run: local all_video_files
  fltI,                \* run: position of the dedup comprehension
  fltOut,              \* run: the list the comprehension builds
  converted_files,     \* run: local converted_files
  transcription_files, \* run: local transcription_files
  trpc,                \* position inside transcribe_to_srt
  trIn,                \* its argument video_files
  trI,                 \* index of the video handled next
  transcribed_files,   \* its local list transcribed_files
  trLog,               \* history: per video of the current call, "ok", "failed"
                       \* or "rejected"
  trLast,              \* history: the audio artifact of the iteration done last
  ixpc,                \* position inside build_index
  ixVideos,            \* its argument video_files
  ixTrans,             \* its argument transcribed_files
  ixI,                 \* loop index i (1-based)
  ixSummary,           \* local summary of the current pair
  upserts,             \* number of direct vectorize_and_store_summary calls
  arg,                 \* the function called directly last, with its arguments
  ret,                 \* what that call returned or raised
  procs,               \* the concurrent executions: position and locals of each
  pg,                  \* the database server besides the rows: holder of the
                       \* advisory lock, definition of the ivfflat index
  pauses,              \* history: the pause_with_abort calls of the current run
  scanLog,             \* history: per scanned source, whether the scan raised
                       \* (kept until the filter has consumed the scan's result)
  stages,              \* history: stages the current run has entered
  writes,              \* history: rows committed since the run (or call) began
  scanned,             \* history: the candidate list before the dedup filter
  store0,              \* history: the store as the current run began
  ok,                  \* history: which collaborator calls have all succeeded
  prevFull,            \* history: the previous run processed all it scanned
  lastUp               \* history: the latest committed upsert of each path

envVars == <<disk, store>>
cfgVars == <<sources, ai_provider, parallel_workers>>
runVars == <<pc, run, srcIdx, all_video_files, fltI, fltOut, converted_files,
             transcription_files>>
trVars == <<trpc, trIn, trI, transcribed_files, trLog, trLast>>
callVars == <<arg, ret, procs, pg>>
auxVars == <<upserts, pauses, scanLog, callVars>>
ixVars == <<ixpc, ixVideos, ixTrans, ixI, ixSummary>>
histVars == <<stages, scanned, store0, ok, prevFull>>
vars == <<disk, store, sources, ai_provider, parallel_workers, pc, run, srcIdx,
          all_video_files, fltI, fltOut, converted_files, transcription_files,
          cvpc, cvIn, fut, results, trpc, trIn, trI, transcribed_files,
          ixpc, ixVideos, ixTrans, ixI, ixSummary, upserts, trLog, trLast, pauses, scanLog,
          arg, ret, procs, pg,
          encoded, stages, writes, scanned, store0, ok, prevFull, lastUp>>

\* SELECT EXISTS(SELECT 1 FROM videos WHERE path = %s)
HasPath(st, path) == \E k \in 1..Len(st) : st[k].path = path

\* SELECT EXISTS(SELECT 1 FROM videos), without the WHERE clause
VideoFileIndexedAnyRow(st, file_path, db) ==
  IF db = "down" THEN FALSE ELSE st # <<>>

VideoFileIndexedNever(st, file_path, db) == FALSE

VideoFileIndexedFailClosed(st, file_path, db) ==
  IF db = "down" THEN TRUE ELSE HasPath(st, file_path)

\* video_file_indexed: False when the connection fails, else the EXISTS row
VideoFileIndexed(st, file_path, db) ==
  IF db = "down" THEN FALSE ELSE HasPath(st, file_path)

\* ON CONFLICT (path) DO UPDATE SET summary = EXCLUDED.summary alone
UpsertSummaryOnly(st, path, summary, embedding) ==
  IF HasPath(st, path)
    THEN [k \in 1..Len(st) |->
            IF st[k].path = path THEN [st[k] EXCEPT !.summary = summary] ELSE st[k]]
    ELSE Append(st, [path |-> path, summary |-> summary, embedding |-> embedding])

\* INSERT INTO videos (summary, path, embedding) VALUES (...) with no
\* ON CONFLICT clause and no unique index in its way
UpsertAppend(st, path, summary, embedding) ==
  Append(st, [path |-> path, summary |-> summary, embedding |-> embedding])

UpsertDoNothing(st, path, summary, embedding) ==
  IF HasPath(st, path) THEN st
  ELSE Append(st, [path |-> path, summary |-> summary, embedding |-> embedding])

\* INSERT INTO videos (summary, path, embedding) VALUES (...)
\* ON CONFLICT (path) DO UPDATE SET summary = EXCLUDED.summary,
\*                                  embedding = EXCLUDED.embedding
Upsert(st, path, summary, embedding) ==
  IF HasPath(st, path)
    THEN [k \in 1..Len(st) |->
            IF st[k].path = path
              THEN [st[k] EXCEPT !.summary = summary, !.embedding = embedding]
              ELSE st[k]]
    ELSE Append(st, [path |-> path, summary |-> summary, embedding |-> embedding])

\* what psycopg.connect / cur.execute can do in vectorize_and_store_summary:
\* connect and commit, fail to connect, connect and raise on execute
DbOutcomes == {"up", "down", "error"}

\* vector_model.encode(summary).tolist(): the loaded model is a fixed function
\* of the text; here one component per character, so that the summaries of
\* the model get different vectors
Encode(summary) == [i \in 1..Len(summary) |-> IF summary[i] = "1" THEN 1 ELSE 0]

\* vectorize_and_store_summary after encode: the store it leaves
StoreAfter(st, summary, video_file_path, embedding, db) ==
  IF db = "up" THEN Upsert(st, video_file_path, summary, embedding) ELSE st

\* history of committed rows
WritesAfter(w, summary, video_file_path, embedding, db) ==
  IF db = "up"
    THEN Append(w, [path |-> video_file_path, summary |-> summary, embedding |-> embedding])
    ELSE w

\* history of the latest committed upsert of each path (<<>>: none yet)
LastUpAfter(l, summary, video_file_path, embedding, db) ==
  IF db = "up"
    THEN [l EXCEPT ![video_file_path] =
            <<[path |-> video_file_path, summary |-> summary, embedding |-> embedding]>>]
    ELSE l

\* -------------------------------------------------------- summarize_srt_file
\* str.strip() of a message content made of blanks and letters
RECURSIVE LStrip(_)
LStrip(s) == IF s # <<>> /\ s[1] = " " THEN LStrip(Tail(s)) ELSE s
RECURSIVE RStrip(_)
RStrip(s) == IF s # <<>> /\ s[Len(s)] = " " THEN RStrip(SubSeq(s, 1, Len(s) - 1)) ELSE s
\* str.lstrip() in the place of str.strip()
StripLeft(s) == LStrip(s)
Strip(s) == RStrip(LStrip(s))

\* responses of openai_client.chat.completions.create: the list of the
\* choices' message contents, or the call raising
Responses ==
  { [raised |-> TRUE, choices |-> <<>>],
    [raised |-> FALSE, choices |-> <<>>],
    [raised |-> FALSE, choices |-> << <<" ">> >>],
    [raised |-> FALSE, choices |-> << <<" ", "s", "1", " ">>, <<"s", "2">> >>] }

\* summarize_srt_file: the summary, or the error raised
SummarizeSrtFile(provider, response) ==
  IF provider # "openai" THEN [kind |-> "exc", val |-> <<>>]
  ELSE IF response.raised THEN [kind |-> "exc", val |-> <<>>]
  ELSE IF response.choices = <<>> THEN [kind |-> "exc", val |-> <<>>]
  ELSE IF Strip(response.choices[1]) = <<>> THEN [kind |-> "exc", val |-> <<>>]
  ELSE [kind |-> "summary", val |-> Strip(response.choices[1])]

\* the provider is asked only when it is the supported one
ResponsesFor(provider) ==
  IF provider # "openai" THEN {[raised |-> FALSE, choices |-> <<>>]} ELSE Responses

\* -------------------------------------------------------------- build_index
MismatchIgnored(video_files, transcribed) == FALSE

\* if len(video_files) != len(transcribed_files): raise ValueError
Mismatch(video_files, transcribed) == Len(video_files) # Len(transcribed)

LoopDoneEarly(i, n) == i >= n

\* for i, srt_file in enumerate(transcribed_files): is the loop over
LoopDone(i, n) == i > n

\* enumerate skipping every second pair
AdvanceTwo(i) == i + 2
\* enumerate(transcribed_files): the position after i
Advance(i) == i + 1

IndexBegin ==
  /\ ixpc = "called"
  /\ ixI' = 1
  /\ ixSummary' = <<>>
  /\ ixpc' = IF Mismatch(ixVideos, ixTrans) THEN "raised"
             ELSE IF LoopDone(1, Len(ixTrans)) THEN "returned"
             ELSE "summarize"
  /\ UNCHANGED <<ixVideos, ixTrans, store, writes, ok, lastUp>>

\* summary = summarize_srt_file(ai_config, srt_file)
IndexSummarize ==
  /\ ixpc = "summarize"
  /\ \E resp \in ResponsesFor(ai_provider) :
     \E r \in {SummarizeSrtFile(ai_provider, resp)} :
       /\ ixpc' = IF r.kind = "exc" THEN "raised" ELSE "store"
       /\ ixSummary' = IF r.kind = "exc" THEN ixSummary ELSE r.val
       /\ ok' = [ok EXCEPT !.calls = @ /\ r.kind # "exc", !.stored = "none"]
  /\ UNCHANGED <<ixVideos, ixTrans, ixI, store, writes, lastUp>>

\* vectorize_and_store_summary(summary, video_files[i]); video_files[i]
\* raises IndexError when the list is too short; encode may raise
IndexStore ==
  /\ ixpc = "store"
  /\ IF ixI > Len(ixVideos)
       THEN /\ ixpc' = "raised"
            /\ UNCHANGED <<ixI, store, writes, ok, lastUp>>
       ELSE \E enc \in {"ok", "raise"} : \E db \in DbOutcomes :
              IF enc = "raise"
                THEN /\ ixpc' = "raised"
                     /\ ok' = [ok EXCEPT !.calls = FALSE]
                     /\ UNCHANGED <<ixI, store, writes, lastUp>>
                ELSE /\ store' = StoreAfter(store, ixSummary, ixVideos[ixI], Encode(ixSummary), db)
                     /\ writes' = WritesAfter(writes, ixSummary, ixVideos[ixI], Encode(ixSummary), db)
                     /\ lastUp' = LastUpAfter(lastUp, ixSummary, ixVideos[ixI], Encode(ixSummary), db)
                     /\ ok' = [ok EXCEPT !.calls = @ /\ db = "up", !.stored = db]
                     /\ IF db = "error"
                          THEN ixpc' = "raised" /\ ixI' = ixI
                          ELSE /\ ixI' = Advance(ixI)
                               /\ ixpc' = IF LoopDone(Advance(ixI), Len(ixTrans))
                                            THEN "returned" ELSE "summarize"
  /\ UNCHANGED <<ixVideos, ixTrans, ixSummary>>

IndexStep ==
  \/ IndexBegin
  \/ IndexSummarize
  \/ IndexStore


\* -------------------------------------------------------- transcribe_to_srt
\* the check without lower()
RejectedByExtractorExact(video_file) == ~EndsWith(video_file, <<".", "m", "p", "4">>)
\* convert_mp4_to_wav: not video_file.lower().endswith(".mp4") raises ValueError
RejectedByExtractor(video_file) == ~EndsWith(Lower(video_file), <<".", "m", "p", "4">>)

\* self.config.transcription_config: no output_dir (<<>> stands for None),
\* the tree below the source is not preserved
transcription_config == [output_dir |-> <<>>, preserve_tree |-> FALSE]

\* srt_file: below output_dir under the video's base name when output_dir is
\* set and there is no source base, else next to the video
SrtFile(video_file) ==
  IF transcription_config.output_dir # <<>>
    THEN transcription_config.output_dir \o <<"/">>
           \o SplitExt(Basename(video_file))[1] \o <<".", "s", "r", "t">>
    ELSE RSplitDot(video_file) \o <<".", "s", "r", "t">>

\* before the first iteration of a call: no artifact, no removal attempted
NoIteration == [wav |-> FALSE, rm |-> FALSE]

\* per video: both subprocesses return, or the audio extraction or whisper
\* raises CalledProcessError or FileNotFoundError (all four are caught)
TranscribeOutcomes ==
  {"ok", "extract_nonzero", "extract_missing", "whisper_nonzero", "whisper_missing"}

\* whether the temporary audio artifact exists when the try block is left: no
\* ffmpeg ran, ffmpeg failed (with or without a partial file), ffmpeg returned
ArtifactOutcomes(o) ==
  IF o = "extract_missing" THEN {FALSE}
  ELSE IF o = "extract_nonzero" THEN BOOLEAN
  ELSE {TRUE}

\* finally: if audio_file and os.path.exists(audio_file): os.remove(audio_file);
\* whether the removal is attempted: audio_file is still None when
\* convert_mp4_to_wav raised
RemovalAttempted(o) == o \notin {"extract_nonzero", "extract_missing"}

TranscribedAfterPadded(acc, video_file, outcome) ==
  IF outcome = "ok" THEN Append(acc, SrtFile(video_file)) ELSE Append(acc, <<>>)

\* transcribed_files.append(srt_file) is reached only when nothing raised
TranscribedAfter(acc, video_file, outcome) ==
  IF outcome = "ok" THEN Append(acc, SrtFile(video_file)) ELSE acc

\* whisper writes the subtitle file when it succeeds
DiskAfterWhisper(d, video_file, outcome) ==
  IF outcome = "ok" THEN d \cup {SrtFile(video_file)} ELSE d

\* the log entry of a video by what happened to it
LogEntry(o) == IF o \in {"ok", "rejected"} THEN o ELSE "failed"

TranscribeBegin ==
  /\ trpc = "called"
  /\ trI' = 1
  /\ transcribed_files' = <<>>
  /\ trLog' = <<>>
  /\ trLast' = NoIteration
  /\ trpc' = IF Len(trIn) = 0 THEN "returned" ELSE "loop"
  /\ UNCHANGED <<trIn, ok, disk>>

\* one iteration of "for video_file in video_files"; the ValueError of
\* convert_mp4_to_wav is not caught and leaves transcribe_to_srt
TranscribeOne ==
  /\ trpc = "loop"
  /\ IF RejectedByExtractor(trIn[trI])
       THEN /\ trpc' = "raised"
            /\ ok' = [ok EXCEPT !.calls = FALSE]
            /\ trLog' = Append(trLog, LogEntry("rejected"))
            /\ trLast' = NoIteration
            /\ UNCHANGED <<trI, transcribed_files, disk>>
       ELSE \E o \in TranscribeOutcomes : \E wav \in ArtifactOutcomes(o) :
              /\ transcribed_files' = TranscribedAfter(transcribed_files, trIn[trI], o)
              /\ disk' = DiskAfterWhisper(disk, trIn[trI], o)
              /\ trLog' = Append(trLog, LogEntry(o))
              /\ trLast' = [wav |-> wav, rm |-> RemovalAttempted(o)]
              /\ ok' = [ok EXCEPT !.calls = @ /\ o = "ok"]
              /\ trI' = trI + 1
              /\ trpc' = IF trI + 1 > Len(trIn) THEN "returned" ELSE "loop"
  /\ UNCHANGED trIn

TranscribeStep ==
  \/ TranscribeBegin
  \/ TranscribeOne

\* ------------------------------------------------------------------ scanner
SUPPORTED_VIDEO_FORMATS ==
  << <<"m", "p", "g">>, <<"m", "p", "4">>, <<"a", "v", "i">>,
     <<"m", "o", "v">>, <<"m", "k", "v">> >>

\* the membership test without lower()
WatchPatternsExact(configured) ==
  IF \E i \in 1..Len(configured) : configured[i] = <<"m", "p", "4">>
    THEN configured
    ELSE Append(configured, <<"m", "p", "4">>)

\* VideoSource.__init__: "mp4" is appended unless a pattern equals it ignoring case
WatchPatterns(configured) ==
  IF \E i \in 1..Len(configured) : Lower(configured[i]) = <<"m", "p", "4">>
    THEN configured
    ELSE Append(configured, <<"m", "p", "4">>)

\* extensions = [p for p in normalized_patterns if p in SUPPORTED_VIDEO_FORMATS]
InSupported(x) == x \in Range(SUPPORTED_VIDEO_FORMATS)
ExtensionsAny(watch_patterns) ==
  [i \in 1..Len(watch_patterns) |-> LStripDot(Lower(watch_patterns[i]))]
Extensions(watch_patterns) ==
  SelectSeq([i \in 1..Len(watch_patterns) |-> LStripDot(Lower(watch_patterns[i]))],
            InSupported)

\* any(file.lower().endswith(f".{fmt}") for fmt in extensions)
MatchesAny(file, extensions) ==
  \E k \in 1..Len(extensions) : EndsWith(Lower(Basename(file)), <<".">> \o extensions[k])

\* os.walk(directory) reaches the files below directory
Under(directory, p) == StartsWith(p, directory \o <<"/">>)

\* find_video_files(directory, watch_patterns, recursive=True)
FindVideoFiles(d, directory, watch_patterns) ==
  Sorted({p \in d : Under(directory, p) /\ MatchesAny(p, Extensions(watch_patterns))})

SrcV == [path |-> <<"/", "v">>, watch_patterns |-> WatchPatterns(<< <<"a", "v", "i">> >>)]
SrcW == [path |-> <<"/", "w">>, watch_patterns |-> WatchPatterns(<< <<"m", "k", "v">> >>)]
SourceConfigs == { <<>>, <<SrcV>>, <<SrcW, SrcV>> }


\* -------------------------------------------------------- PipelineRunner.run
Max(a, b) == IF a >= b THEN a ELSE b

\* pause_with_abort: seconds = max(0, 0)
PauseSeconds(seconds) == Max(0, 0)

\* how run ends: return, return after the warning, an exception of a stage,
\* SystemExit(130) of a pause, KeyboardInterrupt
Terminal == {"Done", "DoneWarning", "Raised", "Aborted", "Interrupted"}

\* ok.dedup: every dedup query was answered by the store; ok.down: every query
\* of the comprehension in progress found the store unreachable; ok.calls: every scan, audio extraction,
\* transcription, summary, embedding and store write succeeded
AllOk == ok.dedup /\ ok.calls
OkInit == [dedup |-> TRUE, down |-> TRUE, calls |-> TRUE, stored |-> "none"]

\* every encoder call of the last convert_videos returned normally
ConvOk == \A i \in 1..Len(fut) : fut[i].o \in {"ok", "passthrough"}

\* entry of run(): fresh locals, then the scan loop
RunEnter ==
  /\ run' = run + 1
  /\ prevFull' = (pc = "Done" /\ Len(stages) = 6 /\ AllOk /\ ConvOk /\ fltOut = scanned)
  /\ all_video_files' = <<>>
  /\ srcIdx' = 1
  /\ fltI' = 1
  /\ fltOut' = <<>>
  /\ converted_files' = <<>>
  /\ transcription_files' = <<>>
  /\ cvpc' = "idle" /\ cvIn' = <<>> /\ fut' = <<>> /\ results' = <<>>
  /\ trpc' = "idle" /\ trIn' = <<>> /\ trI' = 1 /\ transcribed_files' = <<>>
  /\ ixpc' = "idle" /\ ixVideos' = <<>> /\ ixTrans' = <<>> /\ ixI' = 1 /\ ixSummary' = <<>>
  /\ encoded' = {}
  /\ writes' = <<>>
  /\ scanned' = <<>>
  /\ store0' = store
  /\ ok' = OkInit
  /\ IF Len(sources) = 0
       THEN pc' = "Filtering" /\ stages' = <<"Scanning", "Filtering">>
       ELSE pc' = "Scanning" /\ stages' = <<"Scanning">>
  /\ trLog' = <<>> /\ trLast' = NoIteration /\ pauses' = <<>> /\ scanLog' = <<>>
  /\ UNCHANGED <<disk, store, cfgVars, upserts, callVars, lastUp>>

\* run() is called on the constructed runner
RunBegin ==
  /\ pc = "Idle"
  /\ RunEnter

\* run() is called again, over the disk and the store the earlier run left
RunAgain ==
  /\ pc \in Terminal
  /\ run < MaxRuns
  /\ RunEnter

ExtendedOrReset(acc, d, source, raised) ==
  IF raised THEN <<>>
  ELSE acc \o FindVideoFiles(d, source.path, source.watch_patterns)

\* try: all_video_files.extend(find_video_files(...)); except Exception: log
Extended(acc, d, source, raised) ==
  IF raised THEN acc
  ELSE acc \o FindVideoFiles(d, source.path, source.watch_patterns)

\* one iteration of the scan loop: find_video_files returns or raises
ScanSource ==
  /\ pc = "Scanning"
  /\ \E raised \in BOOLEAN :
     \E all \in {Extended(all_video_files, disk, sources[srcIdx], raised)} :
       /\ all_video_files' = all
       /\ ok' = [ok EXCEPT !.calls = @ /\ ~raised]
       /\ scanLog' = Append(scanLog, raised)
       /\ srcIdx' = srcIdx + 1
       /\ IF srcIdx = Len(sources)
            THEN /\ pc' = "Filtering"
                 /\ stages' = Append(stages, "Filtering")
                 /\ scanned' = all
            ELSE UNCHANGED <<pc, stages, scanned>>
  /\ UNCHANGED <<envVars, cfgVars, run, fltI, fltOut, converted_files,
                 transcription_files, cvVars, trVars, ixVars, upserts, pauses, callVars,
                 encoded,
                 writes, store0, prevFull, lastUp>>

\* one element of [f for f in all_video_files if not video_file_indexed(f)];
\* a query that raises after the connection was made leaves run
FilterStep ==
  /\ pc = "Filtering"
  /\ fltI <= Len(all_video_files)
  /\ \E db \in DbOutcomes :
       /\ ok' = [ok EXCEPT !.dedup = @ /\ db = "up", !.down = @ /\ db = "down"]
       /\ IF db = "error"
            THEN pc' = "Raised" /\ UNCHANGED <<fltI, fltOut>>
            ELSE /\ fltOut' = IF VideoFileIndexed(store, all_video_files[fltI], db)
                                THEN fltOut ELSE Append(fltOut, all_video_files[fltI])
                 /\ fltI' = fltI + 1
                 /\ pc' = pc
  /\ UNCHANGED <<envVars, cfgVars, run, srcIdx, all_video_files, converted_files,
                 transcription_files, cvVars, trVars, ixVars, auxVars, encoded,
                 stages, writes, scanned, store0, prevFull, lastUp>>

\* if len(all_video_files) == 0: return
FilterDone ==
  /\ pc = "Filtering"
  /\ fltI > Len(all_video_files)
  /\ all_video_files' = fltOut
  /\ pc' = IF Len(fltOut) = 0 THEN "Done" ELSE "PausedBeforeConvert"
  /\ scanLog' = <<>>
  /\ ok' = [ok EXCEPT !.down = TRUE]
  /\ UNCHANGED <<envVars, cfgVars, run, srcIdx, fltI, fltOut, converted_files,
                 transcription_files, cvVars, trVars, ixVars, upserts, pauses, callVars,
                 encoded,
                 stages, scanned, store0, prevFull, writes, lastUp>>

\* when a KeyboardInterrupt is raised inside pause_with_abort(stage, seconds=2):
\* 0 for never, k for during the k-th time.sleep(1) (1 for at once when the
\* call does not sleep)
Interrupts == 0..Max(1, PauseSeconds(2))

\* pause_with_abort: the seconds slept and how the call ends; only the sleep
\* loop is inside the try that turns KeyboardInterrupt into SystemExit(130)
PauseWithAbort(seconds, at) ==
  IF at = 0 THEN [slept |-> PauseSeconds(seconds), end |-> "return"]
  ELSE IF PauseSeconds(seconds) = 0 THEN [slept |-> 0, end |-> "KeyboardInterrupt"]
  ELSE [slept |-> at - 1, end |-> "SystemExit"]

AfterPauseRestart(r, stage) ==
  IF r.end = "return" THEN "Converting"
  ELSE IF r.end = "SystemExit" THEN "Aborted" ELSE "Interrupted"

\* where run is after the pause: at the stage, or left by the exception
AfterPause(r, stage) ==
  IF r.end = "return" THEN stage
  ELSE IF r.end = "SystemExit" THEN "Aborted" ELSE "Interrupted"

\* pause, then convert_videos(all_video_files) is called
PauseBeforeConvert ==
  /\ pc = "PausedBeforeConvert"
  /\ \E at \in Interrupts : \E r \in {PauseWithAbort(2, at)} :
       /\ pauses' = Append(pauses, r)
       /\ pc' = AfterPause(r, "Converting")
       /\ IF r.end # "return"
            THEN UNCHANGED <<cvpc, cvIn, stages>>
            ELSE /\ cvpc' = "called"
                 /\ cvIn' = all_video_files
                 /\ stages' = Append(stages, "Converting")
  /\ UNCHANGED <<envVars, cfgVars, run, srcIdx, all_video_files, fltI, fltOut,
                 converted_files, transcription_files, fut, results, trVars, ixVars,
                 upserts, scanLog, callVars, encoded, writes, scanned, store0, ok,
                 prevFull, lastUp>>

RunConvert ==
  /\ pc = "Converting"
  /\ ConvertStep
  /\ UNCHANGED <<store, cfgVars, runVars, trVars, ixVars, auxVars, histVars,
                 writes, lastUp>>

\* convert_videos returned (or its exception leaves run)
ConvertDone ==
  /\ pc = "Converting"
  /\ cvpc \in {"returned", "raised"}
  /\ cvpc' = "idle"
  /\ IF cvpc = "returned"
       THEN converted_files' = results /\ pc' = "PausedBeforeTranscribe"
       ELSE pc' = "Raised" /\ UNCHANGED converted_files
  /\ UNCHANGED <<envVars, cfgVars, run, srcIdx, all_video_files, fltI, fltOut,
                 transcription_files, cvIn, fut, results, trVars, ixVars, auxVars,
                 encoded, histVars, writes, lastUp>>

\* pause, then transcribe_to_srt(converted_files) is called
PauseBeforeTranscribe ==
  /\ pc = "PausedBeforeTranscribe"
  /\ \E at \in Interrupts : \E r \in {PauseWithAbort(2, at)} :
       /\ pauses' = Append(pauses, r)
       /\ pc' = AfterPause(r, "Transcribing")
       /\ IF r.end # "return"
            THEN UNCHANGED <<trpc, trIn, stages>>
            ELSE /\ trpc' = "called"
                 /\ trIn' = converted_files
                 /\ stages' = Append(stages, "Transcribing")
  /\ UNCHANGED <<envVars, cfgVars, run, srcIdx, all_video_files, fltI, fltOut,
                 converted_files, transcription_files, cvVars, trI, transcribed_files, trLog,
                 trLast,
                 ixVars, upserts, scanLog, callVars, encoded, writes, scanned, store0,
                 ok, prevFull, lastUp>>

RunTranscribe ==
  /\ pc = "Transcribing"
  /\ TranscribeStep
  /\ UNCHANGED <<store, cfgVars, runVars, cvVars, ixVars, auxVars, encoded,
                 stages, writes, scanned, store0, prevFull, lastUp>>

\* transcribe_to_srt returned (or its exception leaves run)
TranscribeDone ==
  /\ pc = "Transcribing"
  /\ trpc \in {"returned", "raised"}
  /\ trpc' = "idle"
  /\ trLast' = NoIteration
  /\ IF trpc = "returned"
       THEN /\ transcription_files' = transcribed_files
            /\ pc' = "AlignmentCheck"
            /\ stages' = Append(stages, "AlignmentCheck")
       ELSE pc' = "Raised" /\ UNCHANGED <<transcription_files, stages>>
  /\ UNCHANGED <<envVars, cfgVars, run, srcIdx, all_video_files, fltI, fltOut,
                 converted_files, cvVars, trIn, trI, transcribed_files, trLog, ixVars,
                 auxVars, encoded, writes, scanned, store0, ok, prevFull, lastUp>>

AlignedAlways(converted, transcribed) == TRUE

\* the 1:1 gate: len(converted_files) == len(transcription_files)
Aligned(converted, transcribed) == Len(converted) = Len(transcribed)

\* if len(converted_files) != len(transcription_files): warn and return
AlignmentCheck ==
  /\ pc = "AlignmentCheck"
  /\ pc' = IF Aligned(converted_files, transcription_files)
             THEN "PausedBeforeIndex" ELSE "DoneWarning"
  /\ UNCHANGED <<envVars, cfgVars, run, srcIdx, all_video_files, fltI, fltOut,
                 converted_files, transcription_files, cvVars, trVars, ixVars,
                 auxVars, encoded, histVars, writes, lastUp>>

\* build_index(all_video_files, transcription_files) in its place
PauseBeforeIndexScanned ==
  /\ pc = "PausedBeforeIndex"
  /\ \E at \in Interrupts : \E r \in {PauseWithAbort(2, at)} :
       /\ pauses' = Append(pauses, r)
       /\ pc' = AfterPause(r, "Indexing")
       /\ IF r.end # "return"
            THEN UNCHANGED <<ixpc, ixVideos, ixTrans, stages>>
            ELSE /\ ixpc' = "called"
                 /\ ixVideos' = all_video_files
                 /\ ixTrans' = transcription_files
                 /\ stages' = Append(stages, "Indexing")
  /\ UNCHANGED <<envVars, cfgVars, run, srcIdx, all_video_files, fltI, fltOut,
                 converted_files, transcription_files, cvVars, trVars, ixI, ixSummary,
                 upserts, scanLog, callVars, encoded, writes, scanned, store0, ok,
                 prevFull, lastUp>>

\* pause, then build_index(converted_files, transcription_files) is called
PauseBeforeIndex ==
  /\ pc = "PausedBeforeIndex"
  /\ \E at \in Interrupts : \E r \in {PauseWithAbort(2, at)} :
       /\ pauses' = Append(pauses, r)
       /\ pc' = AfterPause(r, "Indexing")
       /\ IF r.end # "return"
            THEN UNCHANGED <<ixpc, ixVideos, ixTrans, stages>>
            ELSE /\ ixpc' = "called"
                 /\ ixVideos' = converted_files
                 /\ ixTrans' = transcription_files
                 /\ stages' = Append(stages, "Indexing")
  /\ UNCHANGED <<envVars, cfgVars, run, srcIdx, all_video_files, fltI, fltOut,
                 converted_files, transcription_files, cvVars, trVars, ixI, ixSummary,
                 upserts, scanLog, callVars, encoded, writes, scanned, store0, ok,
                 prevFull, lastUp>>

RunIndex ==
  /\ pc = "Indexing"
  /\ IndexStep
  /\ UNCHANGED <<disk, cfgVars, runVars, cvVars, trVars, auxVars, encoded,
                 stages, scanned, store0, prevFull>>

\* build_index returned (or its exception leaves run)
IndexDone ==
  /\ pc = "Indexing"
  /\ ixpc \in {"returned", "raised"}
  /\ ixpc' = "idle"
  /\ pc' = IF ixpc = "returned" THEN "Done" ELSE "Raised"
  /\ UNCHANGED <<envVars, cfgVars, run, srcIdx, all_video_files, fltI, fltOut,
                 converted_files, transcription_files, cvVars, trVars, ixVideos,
                 ixTrans, ixI, ixSummary, auxVars, encoded, histVars, writes, lastUp>>

\* every path a row can be stored under
AllPaths == VideoFiles \cup {OutputFile(f) : f \in VideoFiles} \cup {P_A}

Disks == {d \in SUBSET VideoFiles : Cardinality(d) <= MaxFiles}

\* the locals of the three stage methods before any call
StagesIdle ==
  /\ cvpc = "idle" /\ cvIn = <<>> /\ fut = <<>> /\ results = <<>>
  /\ trpc = "idle" /\ trIn = <<>> /\ trI = 1 /\ transcribed_files = <<>> /\ trLog = <<>>
  /\ trLast = NoIteration
  /\ ixpc = "idle" /\ ixVideos = <<>> /\ ixTrans = <<>> /\ ixI = 1 /\ ixSummary = <<>>

\* one process alone with the store: no session of another one, no lock held
Alone == procs = <<>> /\ pg = [lock |-> 0, ivfflat |-> "none"]

\* no run yet, nothing called directly
RunIdle ==
  /\ arg = [fn |-> "none"] /\ ret = [fn |-> "none"]
  /\ run = 0 /\ srcIdx = 1 /\ all_video_files = <<>> /\ fltI = 1 /\ fltOut = <<>>
  /\ converted_files = <<>> /\ transcription_files = <<>>
  /\ upserts = 0 /\ encoded = {} /\ stages = <<>> /\ writes = <<>>
  /\ pauses = <<>> /\ scanLog = <<>>
  /\ scanned = <<>> /\ ok = OkInit /\ prevFull = FALSE
  /\ lastUp = [p \in AllPaths |-> <<>>]

\* a constructed PipelineRunner over some disk, an empty videos table,
\* converting on the calling thread or with the widest pool
Init ==
  /\ disk \in Disks
  /\ store = <<>>
  /\ store0 = <<>>
  /\ sources \in SourceConfigs
  /\ ai_provider = "openai"
  /\ parallel_workers \in {1, MaxWorkers}
  /\ pc = "Idle"
  /\ RunIdle /\ Alone
  /\ StagesIdle

Next ==
  \/ RunBegin
  \/ ScanSource
  \/ FilterStep
  \/ FilterDone
  \/ PauseBeforeConvert
  \/ RunConvert
  \/ ConvertDone
  \/ PauseBeforeTranscribe
  \/ RunTranscribe
  \/ TranscribeDone
  \/ AlignmentCheck
  \/ PauseBeforeIndex
  \/ RunIndex
  \/ IndexDone

Spec == Init /\ [][Next]_vars

\* run() is sequential code on one thread plus the pool's threads: a step
\* that can be taken is taken (every subprocess and service call returns)
FairSpec == Spec /\ WF_vars(Next)

\* consecutive runs of one runner over one source
InitRerun ==
  /\ disk \in Disks
  /\ store = <<>>
  /\ store0 = <<>>
  /\ sources = <<SrcV>>
  /\ ai_provider = "openai"
  /\ parallel_workers \in 1..MaxWorkers
  /\ pc = "Idle"
  /\ RunIdle /\ Alone
  /\ StagesIdle

NextRerun == Next \/ RunAgain

\* one run of a runner whose indexing configuration names either provider
\* (IndexingConfig takes ai_provider from the configuration unchecked)
InitProvider ==
  /\ disk \in Disks
  /\ store = <<>>
  /\ store0 = <<>>
  /\ sources = <<SrcV>>
  /\ ai_provider \in {"openai", "other"}
  /\ parallel_workers = 1
  /\ pc = "Idle"
  /\ RunIdle /\ Alone
  /\ StagesIdle

SpecProvider == InitProvider /\ [][Next]_vars

SpecRerun == InitRerun /\ [][NextRerun]_vars


\* ------------------------------------------------- the stages called directly
\* convert_videos(video_files) on a runner with any parallel_workers
InitConvert ==
  /\ cvIn \in SeqsUpTo(VideoFiles, MaxBatch)
  /\ disk = Range(cvIn)
  /\ parallel_workers \in -1..MaxWorkers
  /\ cvpc = "called" /\ fut = <<>> /\ results = <<>>
  /\ store = <<>> /\ store0 = <<>>
  /\ sources = <<SrcV>>
  /\ ai_provider = "openai"
  /\ pc = "Direct"
  /\ RunIdle /\ Alone
  /\ trpc = "idle" /\ trIn = <<>> /\ trI = 1 /\ transcribed_files = <<>> /\ trLog = <<>>
  /\ trLast = NoIteration
  /\ ixpc = "idle" /\ ixVideos = <<>> /\ ixTrans = <<>> /\ ixI = 1 /\ ixSummary = <<>>

NextConvert ==
  /\ ConvertStep
  /\ UNCHANGED <<store, cfgVars, runVars, trVars, ixVars, auxVars, histVars,
                 writes, lastUp>>

SpecConvert == InitConvert /\ [][NextConvert]_vars

\* the rows the videos table can hold when build_index is called
Summaries == {<<"s", "1">>, <<"s", "2">>}
RowOf(p, summary) == [path |-> p, summary |-> summary, embedding |-> Encode(summary)]
IndexVideos == {P_a, P_cc}

\* build_index(video_files, transcribed_files) with any two lists
InitIndex ==
  /\ ixVideos \in SeqsUpTo(IndexVideos, MaxBatch)
  /\ ixTrans \in SeqsUpTo({SrtFile(v) : v \in IndexVideos}, MaxBatch)
  /\ ixpc = "called" /\ ixI = 1 /\ ixSummary = <<>>
  /\ store \in {<<>>, <<RowOf(P_a, <<"s", "2">>)>>}
  /\ store0 = store
  /\ disk = IndexVideos
  /\ sources = <<SrcV>>
  /\ ai_provider \in {"openai", "other"}
  /\ parallel_workers = 1
  /\ pc = "Direct"
  /\ RunIdle /\ Alone
  /\ cvpc = "idle" /\ cvIn = <<>> /\ fut = <<>> /\ results = <<>>
  /\ trpc = "idle" /\ trIn = <<>> /\ trI = 1 /\ transcribed_files = <<>> /\ trLog = <<>>
  /\ trLast = NoIteration

NextIndex ==
  /\ IndexStep
  /\ UNCHANGED <<disk, cfgVars, runVars, cvVars, trVars, auxVars, encoded,
                 stages, scanned, store0, prevFull>>

SpecIndex == InitIndex /\ [][NextIndex]_vars

\* transcribe_to_srt(video_files) with any list, over a disk that holds the
\* videos and any of their subtitle files from an earlier call
TranscribeInputs == {P_a, P_B, P_c, P_cc}
InitTranscribe ==
  /\ trIn \in SeqsUpTo(TranscribeInputs, MaxBatch)
  /\ \E srts \in SUBSET {SrtFile(v) : v \in Range(trIn)} : disk = Range(trIn) \cup srts
  /\ trpc = "called" /\ trI = 1 /\ transcribed_files = <<>> /\ trLog = <<>>
  /\ trLast = NoIteration
  /\ store = <<>> /\ store0 = <<>>
  /\ sources = <<SrcV>>
  /\ ai_provider = "openai"
  /\ parallel_workers = 1
  /\ pc = "Direct"
  /\ RunIdle /\ Alone
  /\ cvpc = "idle" /\ cvIn = <<>> /\ fut = <<>> /\ results = <<>>
  /\ ixpc = "idle" /\ ixVideos = <<>> /\ ixTrans = <<>> /\ ixI = 1 /\ ixSummary = <<>>

NextTranscribe ==
  /\ TranscribeStep
  /\ UNCHANGED <<store, cfgVars, runVars, cvVars, ixVars, auxVars, encoded,
                 stages, writes, scanned, store0, prevFull, lastUp>>

SpecTranscribe == InitTranscribe /\ [][NextTranscribe]_vars

\* vectorize_and_store_summary(summary, video_file_path) called directly
UpsertPaths == {P_a, P_B, P_cc}
DirectUpsert ==
  /\ upserts < MaxUpserts
  /\ upserts' = upserts + 1
  /\ \E p \in UpsertPaths : \E summary \in Summaries : \E db \in DbOutcomes :
       /\ store' = StoreAfter(store, summary, p, Encode(summary), db)
       /\ writes' = WritesAfter(writes, summary, p, Encode(summary), db)
       /\ lastUp' = LastUpAfter(lastUp, summary, p, Encode(summary), db)
  /\ UNCHANGED <<disk, cfgVars, runVars, cvVars, trVars, ixVars, encoded, histVars,
                 pauses, scanLog, callVars>>

InitUpsert ==
  /\ store = <<>> /\ store0 = <<>>
  /\ disk = IndexVideos
  /\ sources = <<SrcV>>
  /\ ai_provider = "openai"
  /\ parallel_workers = 1
  /\ pc = "Direct"
  /\ RunIdle /\ Alone
  /\ StagesIdle

SpecUpsert == InitUpsert /\ [][DirectUpsert]_vars


\* a run over a directory that holds two videos with the same stem, with its
\* source configured once or twice
InitClash ==
  /\ disk = {P_a, P_A}
  /\ store = <<>>
  /\ store0 = <<>>
  /\ sources \in { <<SrcV>>, <<SrcV, SrcV>> }
  /\ ai_provider = "openai"
  /\ parallel_workers = 1
  /\ pc = "Idle"
  /\ RunIdle /\ Alone
  /\ StagesIdle

SpecClash == InitClash /\ [][Next]_vars

\* --------------------------------------------- functions called on their own
\* Each behaviour makes one call: these functions keep nothing between calls.
\* the variables a direct call of a function leaves alone
callFrame == <<disk, store, cfgVars, runVars, cvVars, trVars, ixVars, encoded, histVars,
               upserts, pauses, scanLog, procs, pg, writes, lastUp>>

\* what openai_client.chat.completions.create can answer, had it been asked:
\* it raises, or gives up to MaxChoices choices with these message contents
AllResponses ==
  {[raised |-> TRUE, choices |-> <<>>]}
    \cup {[raised |-> FALSE, choices |-> c] :
            c \in SeqsUpTo({ <<>>, <<" ">>, <<" ", " ">>, <<" ", "s", "1", " ">>,
                             <<"s", "2">>, <<"s", " ", "3">> }, MaxChoices)}

\* summarize_srt_file(srt_path, ai_provider): the provider check comes before
\* the transcript is loaded and before the request is made
CallSummarize ==
  /\ arg.fn = "none"
  /\ \E provider \in {"openai", "other"} : \E response \in AllResponses :
       /\ arg' = [fn |-> "summarize_srt_file", provider |-> provider,
                  response |-> response]
       /\ ret' = [out |-> SummarizeSrtFile(provider, response),
                  asked |-> provider = "openai"]
  /\ UNCHANGED callFrame

\* convert_mp4_to_wav: audio_file; os.path.join puts a separator after an
\* output_dir that does not end with one
AudioFile(video_file, output_dir) ==
  LET base_name == SplitExt(Basename(video_file))[1] \o <<".", "w", "a", "v">>
  IN IF output_dir # <<>>
       THEN IF output_dir[Len(output_dir)] = "/"
              THEN output_dir \o base_name
              ELSE output_dir \o <<"/">> \o base_name
       ELSE SubSeq(video_file, 1, Len(video_file) - 3) \o <<"w", "a", "v">>

\* convert_mp4_to_wav(video_file, output_dir): ffmpeg runs with check=True
ConvertMp4ToWav(video_file, output_dir, ffmpeg) ==
  IF RejectedByExtractor(video_file) THEN [kind |-> "exc", val |-> <<>>, ran |-> FALSE]
  ELSE IF ffmpeg # "ok" THEN [kind |-> "exc", val |-> <<>>, ran |-> TRUE]
  ELSE [kind |-> "path", val |-> AudioFile(video_file, output_dir), ran |-> TRUE]

\* convert_mp4_to_wav called with a file of the universe or with
\* "/v/x.d/a.b.mp4", "/v/.mp4", "/v/amp4"; output_dir is None or "", "/o", "/o/"
CallExtract ==
  /\ arg.fn = "none"
  /\ \E video_file \in VideoFiles \cup
          { <<"/", "v", "/", "x", ".", "d", "/", "a", ".", "b", ".", "m", "p", "4">>,
            <<"/", "v", "/", ".", "m", "p", "4">>, <<"/", "v", "/", "a", "m", "p", "4">> } :
       \E output_dir \in { <<>>, <<"/", "o">>, <<"/", "o", "/">> } :
         \E ffmpeg \in {"ok", "failed"} :
           /\ arg' = [fn |-> "convert_mp4_to_wav", video_file |-> video_file,
                      output_dir |-> output_dir, ffmpeg |-> ffmpeg]
           /\ ret' = ConvertMp4ToWav(video_file, output_dir, ffmpeg)
  /\ UNCHANGED callFrame

\* path.split("/") without the empty components: the names of a path
RECURSIVE Parts(_)
Parts(p) ==
  IF p = <<>> THEN <<>>
  ELSE IF p[1] = "/" THEN Parts(Tail(p))
  ELSE LET k == IF \E i \in 1..Len(p) : p[i] = "/"
                   THEN CHOOSE i \in 1..Len(p) :
                          p[i] = "/" /\ \A j \in 1..(i - 1) : p[j] # "/"
                   ELSE Len(p) + 1
       IN <<SubSeq(p, 1, k - 1)>> \o Parts(SubSeq(p, k + 1, Len(p)))

\* os.path.relpath(path, start) of two absolute paths: ".." for each name of
\* start after the names they share, then the rest of path
RelPath(path, start) ==
  LET start_list == Parts(start)
      path_list == Parts(path)
      Shared(k) == /\ k <= Len(path_list)
                   /\ \A j \in 1..k : start_list[j] = path_list[j]
      i == Cardinality({k \in 1..Len(start_list) : Shared(k)})
      rel_list == [k \in 1..(Len(start_list) - i) |-> <<".", ".">>]
                    \o SubSeq(path_list, i + 1, Len(path_list))
      Joined[n \in 0..Len(rel_list)] ==
        IF n = 0 THEN <<>>
        ELSE IF n = 1 THEN rel_list[1]
        ELSE Joined[n - 1] \o <<"/">> \o rel_list[n]
  IN IF rel_list = <<>> THEN <<".">> ELSE Joined[Len(rel_list)]

\* os.path.dirname of a path without doubled separators
Dirname(p) ==
  IF RFind(p, "/") <= 1 THEN SubSeq(p, 1, RFind(p, "/"))
  ELSE SubSeq(p, 1, RFind(p, "/") - 1)

\* os.path.join(a, b)
PathJoin(a, b) ==
  IF b # <<>> /\ b[1] = "/" THEN b
  ELSE IF a = <<>> \/ a[Len(a)] = "/" THEN a \o b
  ELSE a \o <<"/">> \o b

\* find_source_base(path): the path of the first source that path starts
\* with, <<>> for None
FindSourceBase(path, roots) ==
  IF \E k \in 1..Len(roots) : StartsWith(path, roots[k])
    THEN roots[CHOOSE k \in 1..Len(roots) :
                 /\ StartsWith(path, roots[k])
                 /\ \A j \in 1..(k - 1) : ~StartsWith(path, roots[j])]
    ELSE <<>>

\* one iteration of transcribe_to_srt up to the extraction: base, srt_out_dir,
\* srt_file and the audio_file that convert_mp4_to_wav is asked to write
SrtTarget(video_file, config, roots) ==
  LET base == IF config.preserve_tree THEN FindSourceBase(video_file, roots) ELSE <<>>
      rel == IF base # <<>> THEN RelPath(video_file, base) ELSE Basename(video_file)
      rel_no_ext == SplitExt(rel)[1]
      srt_out_dir == IF config.output_dir # <<>>
                       THEN PathJoin(config.output_dir, Dirname(rel_no_ext))
                       ELSE Dirname(video_file)
      srt_file == IF config.output_dir # <<>>
                    THEN PathJoin(config.output_dir, rel_no_ext \o <<".", "s", "r", "t">>)
                    ELSE RSplitDot(video_file) \o <<".", "s", "r", "t">>
  IN [base |-> base, srt_out_dir |-> srt_out_dir, srt_file |-> srt_file,
      audio_file |-> AudioFile(video_file, srt_out_dir)]

\* transcribe_to_srt(video_files) as far as the paths it chooses: videos
\* "/v/a.mp4", "/v/a.MP4", "/v/s/a.mp4", "/vw/a.mp4"; sources at "/v", "/vw",
\* "/v/s"; output_dir None or "/o"
CallTranscribe ==
  /\ arg.fn = "none"
  /\ \E video_files \in SeqsUpTo({ P_a, P_A,
                                   <<"/", "v", "/", "s", "/", "a", ".", "m", "p", "4">>,
                                   <<"/", "v", "w", "/", "a", ".", "m", "p", "4">> }, MaxBatch) :
       \E roots \in SeqsUpTo({ <<"/", "v">>, <<"/", "v", "w">>, <<"/", "v", "/", "s">> },
                              MaxBatch) :
         \E config \in [output_dir : { <<>>, <<"/", "o">> }, preserve_tree : BOOLEAN] :
           /\ arg' = [fn |-> "transcribe_to_srt", video_files |-> video_files,
                      roots |-> roots, config |-> config]
           /\ ret' = [val |-> [i \in 1..Len(video_files) |->
                                SrtTarget(video_files[i], config, roots)]]
  /\ UNCHANGED callFrame

\* os.listdir(directory) names the entries directly inside directory
Child(directory, p) ==
  /\ Under(directory, p)
  /\ \A k \in (Len(directory) + 2)..Len(p) : p[k] # "/"

\* find_video_files(directory, watch_patterns, recursive)
FindVideoFilesIn(d, directory, watch_patterns, recursive) ==
  IF recursive
    THEN FindVideoFiles(d, directory, watch_patterns)
    ELSE Sorted({p \in d : Child(directory, p) /\ MatchesAny(p, Extensions(watch_patterns))})

\* a tree with a nested file, a subtitle file and a name without a dot:
\* "/v/s/e.mkv", "/v/n.srt", "/v/amp4" besides the files of the universe
Tree ==
  VideoFiles \cup { <<"/", "v", "/", "s", "/", "e", ".", "m", "k", "v">>,
                    <<"/", "v", "/", "n", ".", "s", "r", "t">>, <<"/", "v", "/", "a", "m", "p", "4">> }

\* watch patterns as configurations write them: "mp4", ".MP4", "avi", ".mkv", "srt"
Patterns ==
  { <<"m", "p", "4">>, <<".", "M", "P", "4">>, <<"a", "v", "i">>,
    <<".", "m", "k", "v">>, <<"s", "r", "t">> }

CallFind ==
  /\ arg.fn = "none"
  /\ \E directory \in { <<"/", "v">>, <<"/", "w">> } :
       \E watch_patterns \in SeqsUpTo(Patterns, MaxBatch) : \E recursive \in BOOLEAN :
         /\ arg' = [fn |-> "find_video_files", directory |-> directory,
                    watch_patterns |-> watch_patterns, recursive |-> recursive]
         /\ ret' = [val |-> FindVideoFilesIn(Tree, directory, watch_patterns, recursive)]
  /\ UNCHANGED callFrame

\* VideoSource(source_config): watch_patterns is the configuration's list,
\* also with "Mp4" in it
CallVideoSource ==
  /\ arg.fn = "none"
  /\ \E configured \in SeqsUpTo(Patterns \cup { <<"M", "p", "4">> }, MaxBatch) :
       /\ arg' = [fn |-> "VideoSource", watch_patterns |-> configured]
       /\ ret' = [watch_patterns |-> WatchPatterns(configured)]
  /\ UNCHANGED callFrame

InitCalls ==
  /\ store = <<>> /\ store0 = <<>>
  /\ disk = {}
  /\ sources = <<>>
  /\ ai_provider = "openai"
  /\ parallel_workers = 1
  /\ pc = "Direct"
  /\ RunIdle /\ Alone
  /\ StagesIdle

NextCalls ==
  \/ CallSummarize
  \/ CallExtract
  \/ CallFind
  \/ CallVideoSource
  \/ CallTranscribe

SpecCalls == InitCalls /\ [][NextCalls]_vars


\* -------------------------------------------------------------- query_videos
\* ORDER BY embedding <-> %s LIMIT %s: the rows in an order of ascending
\* distance from e, rows at the same distance in any order; the distance of
\* two vectors of the model's dimension is here the number of components
\* that differ
Ranked(st, e, result_limit) ==
  LET Distance(m) == Cardinality({k \in 1..Len(e) : st[m].embedding[k] # e[k]})
  IN {r \in [1..(IF result_limit < Len(st) THEN result_limit ELSE Len(st)) -> 1..Len(st)] :
        /\ \A j, k \in DOMAIN r : j < k => r[j] # r[k] /\ Distance(r[j]) <= Distance(r[k])
        /\ \A m \in 1..Len(st) : \A j \in DOMAIN r :
             (\A k \in DOMAIN r : r[k] # m) => Distance(r[j]) <= Distance(m)}

\* connect inside try without the return []
QueryVideosUnguarded(st, query, result_limit, db) ==
  IF db # "up" THEN {[kind |-> "exc", val |-> <<>>]}
  ELSE {[kind |-> "paths", val |-> [j \in DOMAIN r |-> st[r[j]].path]] :
          r \in Ranked(st, Encode(query), result_limit)}

\* query_videos(query, result_limit): what it can return or raise; a failed
\* connect gives [], cur.execute is outside the try
QueryVideos(st, query, result_limit, db) ==
  IF db = "down" THEN {[kind |-> "paths", val |-> <<>>]}
  ELSE IF db = "error" THEN {[kind |-> "exc", val |-> <<>>]}
  ELSE {[kind |-> "paths", val |-> [j \in DOMAIN r |-> st[r[j]].path]] :
          r \in Ranked(st, Encode(query), result_limit)}

\* a search is made while the runner works
DirectQuery ==
  /\ \E query \in Summaries : \E result_limit \in {1, MaxBatch} : \E db \in DbOutcomes :
       \E r \in QueryVideos(store, query, result_limit, db) :
         /\ arg' = [fn |-> "query_videos", query |-> query,
                    result_limit |-> result_limit, db |-> db]
         /\ ret' = r
  /\ UNCHANGED callFrame

SpecSearch == InitProvider /\ [][Next \/ DirectQuery]_vars

\* ------------------------------------------- two runs against the same store
\* what a session with the store leaves alone
sessionFrame == <<disk, cfgVars, runVars, cvVars, trVars, ixVars, encoded, histVars,
                  upserts, pauses, scanLog, arg, ret, lastUp>>

\* run i asks video_file_indexed(file) for its candidate; the answer is read
\* from the rows committed so far
WriterFilter(i) ==
  /\ procs[i].pc = "filter"
  /\ \E db \in DbOutcomes :
       procs' = [procs EXCEPT ![i].pc =
                   IF db = "error" THEN "raised"
                   ELSE IF VideoFileIndexed(store, procs[i].file, db) THEN "skipped"
                   ELSE "index"]
  /\ UNCHANGED <<store, writes, pg, sessionFrame>>

\* run i reaches vectorize_and_store_summary for the converted file: connect
\* and cur.execute of the upsert; the statement waits while another open
\* transaction holds an uncommitted row of the same path
WriterExecute(i) ==
  /\ procs[i].pc = "index"
  /\ \E db \in DbOutcomes :
       /\ db = "up" => \A j \in 1..Len(procs) :
                         procs[j].pc = "commit" => OutputFile(procs[j].file) # OutputFile(procs[i].file)
       /\ procs' = [procs EXCEPT ![i].pc =
                      CASE db = "up" -> "commit" [] db = "down" -> "unstored"
                        [] OTHER -> "raised"]
  /\ UNCHANGED <<store, writes, pg, sessionFrame>>

\* conn.commit(): the row of run i becomes visible, whole
WriterCommit(i) ==
  /\ procs[i].pc = "commit"
  /\ store' = Upsert(store, OutputFile(procs[i].file), procs[i].summary,
                     Encode(procs[i].summary))
  /\ writes' = Append(writes, [path |-> OutputFile(procs[i].file),
                               summary |-> procs[i].summary,
                               embedding |-> Encode(procs[i].summary), by |-> i])
  /\ procs' = [procs EXCEPT ![i].pc = "done"]
  /\ UNCHANGED <<pg, sessionFrame>>

\* two runs past their scan, each with one candidate and the summary its
\* provider will give for it
InitWriters ==
  /\ procs \in [1..2 -> [pc : {"filter"}, file : {P_a, P_c}, summary : Summaries]]
  /\ pg = [lock |-> 0, ivfflat |-> "none"]
  /\ store = <<>> /\ store0 = <<>>
  /\ disk = {P_a, P_c}
  /\ sources = <<SrcV>>
  /\ ai_provider = "openai"
  /\ parallel_workers = 1
  /\ pc = "Direct"
  /\ RunIdle
  /\ StagesIdle

NextWriters ==
  \/ \E i \in 1..Len(procs) : WriterFilter(i)
  \/ \E i \in 1..Len(procs) : WriterExecute(i)
  \/ \E i \in 1..Len(procs) : WriterCommit(i)

SpecWriters == InitWriters /\ [][NextWriters]_vars


\* ------------------------------------------------------------ ensure_schema
\* SELECT pg_advisory_lock(...): execution i waits until the lock is free and
\* takes it; or the statement raises, the warning is logged, and the
\* execution goes on without the lock
SchemaLock(i) ==
  /\ procs[i].pc = "lock"
  /\ \E raised \in BOOLEAN :
       /\ ~raised => pg.lock = 0
       /\ pg' = IF raised THEN pg ELSE [pg EXCEPT !.lock = i]
  /\ procs' = [procs EXCEPT ![i].pc = "read"]
  /\ UNCHANGED <<store, writes, sessionFrame>>

\* existing = _existing_ivfflat_index_def(cur); rebuild when there is none, or
\* when IVFFLAT_REBUILD is set and its parameters are not the wanted ones;
\* a dry run rebuilds nothing
SchemaRead(i) ==
  /\ procs[i].pc = "read"
  /\ procs' = [procs EXCEPT
       ![i].pc = IF procs[i].dry_run THEN "exit"
                 ELSE IF pg.ivfflat = "none" THEN "create"
                 ELSE IF procs[i].IVFFLAT_REBUILD /\ pg.ivfflat = "old" THEN "drop"
                 ELSE "exit"]
  /\ UNCHANGED <<store, writes, pg, sessionFrame>>

\* DROP INDEX videos_embedding_ivfflat, then CREATE INDEX ... USING ivfflat:
\* dropping an index that is gone, or creating one that is there, raises, and
\* the except of the section ends it
SchemaRebuild(i) ==
  /\ procs[i].pc \in {"drop", "create"}
  /\ IF procs[i].pc = "drop"
       THEN IF pg.ivfflat = "none"
              THEN pg' = pg /\ procs' = [procs EXCEPT ![i].pc = "exit"]
              ELSE /\ pg' = [pg EXCEPT !.ivfflat = "none"]
                   /\ procs' = [procs EXCEPT ![i].pc = "create"]
       ELSE /\ pg' = IF pg.ivfflat = "none" THEN [pg EXCEPT !.ivfflat = "new"] ELSE pg
            /\ procs' = [procs EXCEPT ![i].pc = "exit"]
  /\ UNCHANGED <<store, writes, sessionFrame>>

\* the with block closes the connection: a lock of the session is released
SchemaExit(i) ==
  /\ procs[i].pc = "exit"
  /\ pg' = IF pg.lock = i THEN [pg EXCEPT !.lock = 0] ELSE pg
  /\ procs' = [procs EXCEPT ![i].pc = "ended"]
  /\ UNCHANGED <<store, writes, sessionFrame>>

\* two executions start against a database whose videos table holds some
\* rows and has no ivfflat index, one with other parameters, or the wanted one
InitSchema ==
  /\ procs \in [1..2 -> [pc : {"lock"}, dry_run : BOOLEAN, IVFFLAT_REBUILD : BOOLEAN]]
  /\ pg \in [lock : {0}, ivfflat : {"none", "old", "new"}]
  /\ store \in {<<>>, <<RowOf(P_a, <<"s", "1">>)>>}
  /\ store0 = store
  /\ disk = {}
  /\ sources = <<>>
  /\ ai_provider = "openai"
  /\ parallel_workers = 1
  /\ pc = "Direct"
  /\ RunIdle
  /\ StagesIdle

NextSchema ==
  \/ \E i \in 1..Len(procs) : SchemaLock(i)
  \/ \E i \in 1..Len(procs) : SchemaRead(i)
  \/ \E i \in 1..Len(procs) : SchemaRebuild(i)
  \/ \E i \in 1..Len(procs) : SchemaExit(i)

SpecSchema == InitSchema /\ [][NextSchema]_vars


\* =================================================================== claims
\* what the claims expect convert_videos to give for each file of the universe
P_dc == <<"/", "w", "/", "d", "_", "c", "o", "n", "v", "e", "r", "t", "e", "d",
          ".", "m", "p", "4">>
Mp4Files == {P_a, P_B, P_cc}
ExpectedOut(p) ==
  CASE p = P_a -> P_a [] p = P_B -> P_B [] p = P_cc -> P_cc
    [] p = P_c -> P_cc [] p = P_d -> P_dc

\* how often path q is expected in the result: once per mp4 input equal to q
\* and once per other input whose encoder returned normally and maps to q
ExpectedCount(q) ==
  Cardinality({i \in 1..Len(cvIn) :
                 /\ ExpectedOut(cvIn[i]) = q
                 /\ (cvIn[i] \in Mp4Files \/ fut[i].o = "ok")})
FailedEncodes == {i \in 1..Len(cvIn) : fut[i].o \in {"nonzero", "missing"}}
ResultAsExpected ==
  /\ \A q \in AllPaths : Count(results, q) = ExpectedCount(q)
  /\ Len(results) = Len(cvIn) - Cardinality(FailedEncodes)
ConvertEnded == cvpc \in {"returned", "raised"}
Pooled == Workers(parallel_workers) > 1 /\ Len(cvIn) > 1

FullStages ==
  <<"Scanning", "Filtering", "Converting", "Transcribing", "AlignmentCheck", "Indexing">>
SomeNotIndexed == \E i \in 1..Len(scanned) : ~HasPath(store0, scanned[i])
AllIndexed == \A i \in 1..Len(scanned) : HasPath(store0, scanned[i])
PastFilter == run >= 1 /\ pc \notin {"Idle", "Scanning", "Filtering"}
Uninterrupted == \A i \in 1..Len(pauses) : pauses[i].end = "return"

\* C1: a run in which every scan, dedup query, conversion, audio extraction,
\* transcription, summary, embedding and store write succeeded, that no
\* interrupt cut short and that scanned a file not yet indexed, ends in Done
\* after Converting, Transcribing, AlignmentCheck and Indexing, with one
\* committed upsert per converted file, in order; and every run that has
\* begun terminates.
HappyRunEndsDone ==
  (pc \in Terminal /\ AllOk /\ ConvOk /\ Uninterrupted /\ SomeNotIndexed)
    => /\ pc = "Done"
       /\ stages = FullStages
       /\ Len(converted_files) = Len(all_video_files)
       /\ Len(writes) = Len(converted_files)
       /\ \A i \in 1..Len(writes) : writes[i].path = converted_files[i]
C1_HappyPath ==
  /\ []HappyRunEndsDone
  /\ (pc = "Scanning") ~> (pc \in Terminal)

C1_Witness ==
  /\ pc = "Done" /\ stages = FullStages /\ AllOk /\ ConvOk
  /\ Len(writes) = 2 /\ encoded # {} /\ Pooled

\* C2 as stated: if every scanned file exists in the store (or nothing was
\* scanned), the run returns in Done without converting, transcribing or
\* indexing and writes nothing.
C2_ShortCircuit_Original ==
  (PastFilter /\ AllIndexed)
    => /\ pc = "Done"
       /\ stages = <<"Scanning", "Filtering">>
       /\ encoded = {} /\ writes = <<>> /\ store = store0
       /\ cvpc = "idle" /\ trpc = "idle" /\ ixpc = "idle"

\* C2 amended: the same, provided every dedup query reached the store.
C2_ShortCircuit ==
  (PastFilter /\ AllIndexed /\ ok.dedup)
    => /\ pc = "Done"
       /\ stages = <<"Scanning", "Filtering">>
       /\ encoded = {} /\ writes = <<>> /\ store = store0
       /\ cvpc = "idle" /\ trpc = "idle" /\ ixpc = "idle"

C2_Witness ==
  pc = "Done" /\ run = 2 /\ scanned # <<>> /\ AllIndexed /\ ok.dedup

\* C3: after a run that converted, transcribed and indexed all it scanned, the
\* next run over the same sources and store (the store reachable) filters
\* every file out, invokes no encoder and writes nothing.
C3_IdempotentRerun ==
  (run >= 2 /\ prevFull /\ ok.dedup)
    => /\ encoded = {}
       /\ writes = <<>>
       /\ PastFilter => all_video_files = <<>>

\* C4: the store holds at most one row per path, and the row of a path is the
\* latest upsert committed for it.
C4_IdempotentUpsert ==
  \A p \in AllPaths :
    /\ Cardinality({k \in 1..Len(store) : store[k].path = p}) <= 1
    /\ lastUp[p] # <<>> => \E k \in 1..Len(store) : store[k] = lastUp[p][1]

C4_Witness ==
  /\ Len(writes) = 2 /\ Len(store) = 1
  /\ writes[1].path = writes[2].path
  /\ writes[1].summary = <<"s", "1">>
  /\ store[1].summary = <<"s", "2">>

\* C5: once transcription has returned with a count different from the
\* conversion's, build_index is never called, nothing is written and the run
\* ends in Done-with-warning.
C5_AlignmentGate ==
  (Len(stages) >= 5 /\ Len(converted_files) # Len(transcription_files))
    => /\ pc \in {"AlignmentCheck", "DoneWarning"}
       /\ ixpc = "idle"
       /\ stages = SubSeq(FullStages, 1, 5)
       /\ writes = <<>> /\ store = store0

C5_Witness ==
  pc = "DoneWarning" /\ Len(converted_files) = 2 /\ Len(transcription_files) = 1

\* C6: build_index called with lists of different lengths raises before any
\* summary, embedding or upsert, and leaves the store as it was.
C6_IndexRejectsMismatch ==
  (ixpc # "called" /\ Len(ixVideos) # Len(ixTrans))
    => /\ ixpc = "raised"
       /\ ixI = 1 /\ ixSummary = <<>>
       /\ writes = <<>> /\ store = store0

C6_Witness ==
  ixpc = "raised" /\ Len(ixVideos) = 1 /\ Len(ixTrans) = 2 /\ store # <<>>

\* pairs of the batch whose processing has begun when build_index ends
Attempted ==
  IF Mismatch(ixVideos, ixTrans) THEN 0
  ELSE IF ixpc = "raised" THEN ixI ELSE ixI - 1

\* C7: when build_index ends, every pair of the batch has been attempted or
\* none has.
C7_AllOrNothing ==
  (ixpc \in {"returned", "raised"}) => Attempted \in {0, Len(ixTrans)}

\* C8: when every encoder call returned or exited non-zero, convert_videos
\* returns, and its result holds exactly each mp4 input unchanged and the
\* converted path of each other input whose encoder succeeded.
C8_FailureIsolation ==
  (ConvertEnded /\ \A i \in 1..Len(cvIn) : fut[i].o # "missing")
    => cvpc = "returned" /\ ResultAsExpected

C8_Witness ==
  /\ cvpc = "returned" /\ Pooled
  /\ \E i, j \in 1..Len(cvIn) : fut[i].o = "nonzero" /\ fut[j].o = "ok"

\* C9: convert_videos never raises; a file whose encoder binary is missing is
\* dropped like a failed encode and the others are returned.
C9_MissingBinaryIsolated ==
  ConvertEnded => cvpc = "returned" /\ ResultAsExpected

\* C10: no encoder is invoked on an mp4 input (any letter case), every mp4
\* input is in the returned list as often as in the input, and a batch of mp4
\* files only, processed single-threaded, is returned as it was given.
C10_Passthrough ==
  /\ encoded \cap Mp4Files = {}
  /\ cvpc = "returned"
       => /\ \A p \in Mp4Files : Count(results, p) >= Count(cvIn, p)
          /\ (~Pooled /\ Range(cvIn) \subseteq Mp4Files) => results = cvIn

C10_Witness ==
  cvpc = "returned" /\ cvIn = <<P_B, P_a>> /\ ~Pooled /\ results = cvIn

\* what the claims expect as the subtitle path of each extractable video
P_as == <<"/", "v", "/", "a", ".", "s", "r", "t">>
P_Bs == <<"/", "v", "/", "B", ".", "s", "r", "t">>
P_ccs == <<"/", "v", "/", "c", "_", "c", "o", "n", "v", "e", "r", "t", "e", "d",
           ".", "s", "r", "t">>
ExpectedSrt(p) == CASE p = P_a -> P_as [] p = P_B -> P_Bs [] p = P_cc -> P_ccs
TranscribeEnded == trpc \in {"returned", "raised"}
OkInputs == {i \in 1..Len(trLog) : trLog[i] = "ok"}
\* the expected subtitle paths of the inputs logged "ok", in input order
ExpectedTranscribed ==
  [k \in 1..Cardinality(OkInputs) |->
     ExpectedSrt(trIn[CHOOSE i \in OkInputs :
                        Cardinality({j \in OkInputs : j < i}) = k - 1])]

\* C11: transcribe_to_srt handles its inputs in the order received; when no
\* input is refused by the extractor, a failing extraction or engine (missing
\* binary or non-zero exit) only skips that input and the call returns without
\* raising; the result holds exactly the subtitle path of each successful
\* input, in input order, with no placeholder for a failure.
C11_TranscribeIsolation ==
  /\ trpc = "loop" => Len(trLog) = trI - 1
  /\ trpc # "idle" => transcribed_files = ExpectedTranscribed
  /\ (TranscribeEnded /\ \A i \in 1..Len(trIn) : trIn[i] # P_c)
       => trpc = "returned" /\ Len(trLog) = Len(trIn)

C11_Witness ==
  /\ pc = "Direct" /\ trpc = "returned" /\ Len(trIn) = 2
  /\ trLog = <<"failed", "ok">> /\ Len(transcribed_files) = 1

\* C12: whenever a file's processing is left with its temporary audio artifact
\* on disk, whatever the exit path, the removal of the artifact was attempted.
C12_AudioCleanup == trLast.wav => trLast.rm

\* C13: a video whose subtitle file exists at its computed output path when
\* its turn comes is passed over: its subtitle path goes to the result and
\* neither the extractor nor the engine is invoked for it (no artifact, no
\* removal, no refusal by the extractor).
C13_SkipExistingSrt ==
  [][(trpc = "loop" /\ SrtFile(trIn[trI]) \in disk)
       => /\ transcribed_files' = Append(transcribed_files, SrtFile(trIn[trI]))
          /\ trLast' = NoIteration
          /\ trpc' # "raised"]_vars

\* what the finder gives for source k of the configuration
FoundIn(k) == FindVideoFiles(disk, sources[k].path, sources[k].watch_patterns)
\* the results of the sources 1..k whose scan did not raise, concatenated
RECURSIVE FoundUpTo(_)
FoundUpTo(k) ==
  IF k = 0 THEN <<>>
  ELSE FoundUpTo(k - 1) \o (IF scanLog[k] THEN <<>> ELSE FoundIn(k))

\* C14: a scan that raises for one source stops neither the scan of the
\* other sources nor the run: every configured source is scanned, the
\* candidate list is the concatenation of the results of the sources that
\* did not raise, and the run goes on to Filtering.
C14_ScanIsolation ==
  /\ pc = "Scanning"
       => /\ Len(scanLog) = srcIdx - 1
          /\ all_video_files = FoundUpTo(srcIdx - 1)
  /\ pc = "Filtering"
       => /\ Len(scanLog) = Len(sources)
          /\ all_video_files = FoundUpTo(Len(sources))
          /\ scanned = all_video_files
          /\ stages = <<"Scanning", "Filtering">>

C14_Witness ==
  /\ pc = "Filtering" /\ fltI = 1
  /\ scanLog = <<FALSE, TRUE>>
  /\ Len(all_video_files) = 1

\* C15: while the store cannot be reached, video_file_indexed answers False
\* for every path and never raises: every candidate handled so far survives
\* the filter, and a filter that ends with a non-empty scan hands the whole
\* scanned list on to the pause before conversion.
C15_DedupFailsOpen ==
  /\ [](  (pc = "Filtering" /\ ok.down)
          => fltOut = SubSeq(scanned, 1, fltI - 1))
  /\ [][(pc = "Filtering" /\ ok.down /\ ok'.down) => pc' # "Raised"]_vars
  /\ [][(pc = "Filtering" /\ ok.down /\ scanned # <<>>
            /\ pc' \notin {"Filtering", "Raised"})
          => pc' = "PausedBeforeConvert" /\ all_video_files' = scanned]_vars

C15_Witness ==
  /\ run = 2 /\ pc = "Filtering" /\ fltI > Len(all_video_files) /\ ok.down
  /\ \E i \in 1..Len(fltOut) : HasPath(store, fltOut[i])

\* C16: an interrupt delivered during one of the three pauses is turned into
\* SystemExit(130): the run ends in Aborted at that pause and the stage the
\* pause precedes is never called.
C16_UserAbort ==
  \A i \in 1..Len(pauses) :
    pauses[i].end # "return"
      => /\ i = Len(pauses)
         /\ pauses[i].end = "SystemExit"
         /\ pc = "Aborted"
         /\ stages = SubSeq(FullStages, 1, IF i = 3 THEN 5 ELSE i + 1)
         /\ cvpc = "idle" /\ trpc = "idle" /\ ixpc = "idle"

\* C17: each pause the runner makes with seconds=2 that returns has slept two
\* one-second increments, and one that an interrupt cancelled was cancelled
\* during one of them.
C17_PauseDuration ==
  \A i \in 1..Len(pauses) :
    /\ pauses[i].end = "return" => pauses[i].slept = 2
    /\ pauses[i].end # "return" => pauses[i].end = "SystemExit" /\ pauses[i].slept < 2

IsPrefix(s, full) == Len(s) <= Len(full) /\ s = SubSeq(full, 1, Len(s))

\* C18: the stages of a run are entered in the fixed order Scanning,
\* Filtering, Converting, Transcribing, AlignmentCheck, Indexing, each at most
\* once; convert_videos, transcribe_to_srt and build_index are each called
\* only at their place in that order, never twice, and a stage method runs
\* only while the run is at its stage and the other two are not running.
C18_SequentialStaging ==
  /\ [](IsPrefix(stages, FullStages))
  /\ [](cvpc # "idle" => pc = "Converting" /\ trpc = "idle" /\ ixpc = "idle")
  /\ [](trpc # "idle" => pc = "Transcribing" /\ cvpc = "idle" /\ ixpc = "idle")
  /\ [](ixpc # "idle" => pc = "Indexing" /\ cvpc = "idle" /\ trpc = "idle")
  /\ [](pc = "Converting" => stages = SubSeq(FullStages, 1, 3))
  /\ [](pc = "Transcribing" => stages = SubSeq(FullStages, 1, 4))
  /\ [](pc = "Indexing" => stages = FullStages)
  /\ [][(cvpc # "called" /\ cvpc' = "called")
          => stages = SubSeq(FullStages, 1, 2)]_vars
  /\ [][(trpc # "called" /\ trpc' = "called")
          => stages = SubSeq(FullStages, 1, 3) /\ converted_files = results]_vars
  /\ [][(ixpc # "called" /\ ixpc' = "called")
          => /\ stages = SubSeq(FullStages, 1, 5)
             /\ transcription_files = transcribed_files]_vars

C18_Witness ==
  /\ pc = "Indexing" /\ ixpc = "returned" /\ stages = FullStages
  /\ Len(results) = 2 /\ Len(transcribed_files) = 2

\* C19: whatever the collaborators do, a run that has ended has ended in
\* Done, Done-with-warning or Aborted.
C19_TerminalStates ==
  pc \in Terminal => pc \in {"Done", "DoneWarning", "Aborted"}

\* the bound the claim states, and when it allows concurrency
Bound == IF parallel_workers > 1 THEN parallel_workers ELSE 1
Concurrent == Bound > 1 /\ Len(cvIn) > 1
Collected == {i \in 1..Len(cvIn) : fut[i].st = "collected"}
\* the paths process_one gave for the inputs 1..k, in input order
Kept(k) == {i \in 1..k : fut[i].out.kind = "path"}
InOrder(k) ==
  [n \in 1..Cardinality(Kept(k)) |->
     fut[CHOOSE i \in Kept(k) : Cardinality({j \in Kept(k) : j < i}) = n - 1].out.val]

RECURSIVE SingleResult(_)
SingleResult(k) ==
  IF k = 0 THEN <<>>
  ELSE AppendIfPath(SingleResult(k - 1), ProcessOne(cvIn[k], fut[k].o))
SingleRaises == \E i \in 1..Len(cvIn) : ProcessOne(cvIn[i], fut[i].o).kind = "exc"

\* C21: with the pool, whatever the interleaving and the completion order of
\* the workers, convert_videos raises exactly when the single-threaded loop
\* would for the same files and encoder outcomes, and what it returns has the
\* same members, each as often, as what the loop returns.
C21_InterleavingIndependence ==
  (ConvertEnded /\ Concurrent)
    => /\ cvpc = "raised" <=> SingleRaises
       /\ cvpc = "returned"
            => /\ Len(results) = Len(SingleResult(Len(cvIn)))
               /\ \A q \in AllPaths :
                    Count(results, q) = Count(SingleResult(Len(cvIn)), q)

C21_Witness ==
  /\ cvpc = "returned" /\ Concurrent /\ Len(results) = 2
  /\ results # SingleResult(Len(cvIn))

\* C22: in a run configured with a provider other than "openai" no encoder,
\* extractor or transcription engine is ever invoked and no row is written:
\* the configuration error ends the run first.
C22_ConfigErrorFatal ==
  ai_provider # "openai"
    => /\ encoded = {} /\ trLog = <<>> /\ transcription_files = <<>>
       /\ writes = <<>> /\ store = store0
       /\ pc \notin {"Done", "DoneWarning"} \/ all_video_files = <<>>

\* ---------------------------------------------------------------------- C23
Blank(s) == \A i \in 1..Len(s) : s[i] = " "
Blanks(n) == [i \in 1..n |-> " "]
Summarized == arg.fn = "summarize_srt_file"
\* s is t without the blanks at its two ends
StrippedOf(s, t) ==
  /\ s # <<>> /\ s[1] # " " /\ s[Len(s)] # " "
  /\ \E i, j \in 0..Len(t) : t = Blanks(i) \o s \o Blanks(j)

\* C23: summarize_srt_file raises without asking the provider when the provider
\* is not "openai"; it raises and returns no summary when the response has no
\* choices or the first choice's content is empty or blank; otherwise it
\* returns that content stripped, which is not empty.
C23_SummarizerOutcomes ==
  Summarized =>
    /\ arg.provider # "openai" => ret.out.kind = "exc" /\ ~ret.asked
    /\ (arg.provider = "openai" /\ ~arg.response.raised) =>
         IF arg.response.choices = <<>> \/ Blank(arg.response.choices[1])
           THEN ret.out.kind = "exc" /\ ret.out.val = <<>>
           ELSE /\ ret.asked
                /\ ret.out.kind = "summary"
                /\ StrippedOf(ret.out.val, arg.response.choices[1])

\* a summary came back that is shorter than the content received
C23_Witness ==
  /\ Summarized /\ ret.out.kind = "summary"
  /\ Len(ret.out.val) < Len(arg.response.choices[1])

\* ---------------------------------------------------------------------- C24
Extracted == arg.fn = "convert_mp4_to_wav"
EndsInMp4(f) ==
  /\ Len(f) >= 4
  /\ f[Len(f) - 3] = "." /\ f[Len(f) - 2] \in {"m", "M"}
  /\ f[Len(f) - 1] \in {"p", "P"} /\ f[Len(f)] = "4"
\* the name after the last separator, and that name without its ".mp4"
\* (the whole name when nothing stands before ".mp4")
NameOf(f) ==
  LET k == CHOOSE k \in 0..Len(f) :
             /\ k > 0 => f[k] = "/"
             /\ \A j \in (k + 1)..Len(f) : f[j] # "/"
  IN SubSeq(f, k + 1, Len(f))
StemOf(f) ==
  IF Len(NameOf(f)) > 4 THEN SubSeq(NameOf(f), 1, Len(NameOf(f)) - 4) ELSE NameOf(f)
DirOf(dir) == IF dir[Len(dir)] = "/" THEN SubSeq(dir, 1, Len(dir) - 1) ELSE dir
Wav == <<".", "w", "a", "v">>

\* C24: convert_mp4_to_wav raises before any subprocess for a name that does
\* not end in .mp4 in any case; for an mp4 input it returns
\* output_dir/<stem of the basename>.wav when output_dir is given, and the
\* input path with its extension replaced by wav when it is not.
C24_ExtractContract ==
  Extracted =>
    /\ ~EndsInMp4(arg.video_file) => ret.kind = "exc" /\ ~ret.ran
    /\ (EndsInMp4(arg.video_file) /\ arg.ffmpeg = "ok") =>
         /\ ret.kind = "path"
         /\ ret.val = IF arg.output_dir # <<>>
                        THEN DirOf(arg.output_dir) \o <<"/">> \o StemOf(arg.video_file) \o Wav
                        ELSE SubSeq(arg.video_file, 1, Len(arg.video_file) - 4) \o Wav

\* "/v/B.MP4" was extracted into "/o/B.wav"
C24_Witness ==
  /\ Extracted /\ arg.video_file = P_B /\ arg.output_dir # <<>>
  /\ ret.kind = "path" /\ ret.val = <<"/", "o", "/", "B", ".", "w", "a", "v">>

\* ---------------------------------------------------------------------- C25
Ascending(s) == \A j, k \in 1..Len(s) : j < k => StrLess(s[j], s[k])
\* ways to cut a list of length n into one piece per source: cut[i] is where
\* the piece of source i ends
Cuts(n) ==
  {cut \in [0..Len(sources) -> 0..n] :
     /\ cut[0] = 0 /\ cut[Len(sources)] = n
     /\ \A i \in 1..Len(sources) : cut[i - 1] <= cut[i]}
Piece(s, cut, i) == SubSeq(s, cut[i - 1] + 1, cut[i])

\* C25: the candidate list that reaches the filter is, source after source in
\* the order of the configuration, what the scan of each source gave (nothing
\* for a scan that raised), and what the scan of one source gave is in
\* ascending lexicographic order.
C25_ScanOrdering ==
  (pc = "Filtering" /\ fltI = 1)
    => \E cut \in Cuts(Len(all_video_files)) :
         \A i \in 1..Len(sources) :
           /\ Ascending(Piece(all_video_files, cut, i))
           /\ Range(Piece(all_video_files, cut, i))
                = IF scanLog[i] THEN {} ELSE Range(FoundIn(i))

\* two sources, the second one's file sorts before the first one's
C25_Witness ==
  /\ pc = "Filtering" /\ fltI = 1
  /\ sources = <<SrcW, SrcV>>
  /\ all_video_files = <<P_d, P_a>>

\* ---------------------------------------------------------------------- C26
Found == arg.fn = "find_video_files"
Supported ==
  { <<"m", "p", "g">>, <<"m", "p", "4">>, <<"a", "v", "i">>, <<"m", "o", "v">>,
    <<"m", "k", "v">> }
\* a watch pattern in lower case, without its leading dot
Normalized(pattern) ==
  Lower(IF pattern # <<>> /\ pattern[1] = "." THEN Tail(pattern) ELSE pattern)
\* the text after the last dot of p, in lower case, is e (e holds no dot)
HasExtension(p, e) ==
  /\ Len(p) > Len(e)
  /\ p[Len(p) - Len(e)] = "."
  /\ \A k \in 1..Len(e) : LowerChar(p[Len(p) - Len(e) + k]) = e[k]
Slashes(p) == Cardinality({k \in 1..Len(p) : p[k] = "/"})
Inside(directory, p, recursive) ==
  /\ Len(p) > Len(directory) + 1
  /\ \A k \in 1..Len(directory) : p[k] = directory[k]
  /\ p[Len(directory) + 1] = "/"
  /\ recursive \/ Slashes(p) = Slashes(directory) + 1
ExpectedFound ==
  {p \in Tree :
     /\ Inside(arg.directory, p, arg.recursive)
     /\ \E e \in Supported :
          /\ \E i \in 1..Len(arg.watch_patterns) : Normalized(arg.watch_patterns[i]) = e
          /\ HasExtension(p, e)}

Constructed == arg.fn = "VideoSource"
IsMp4(pattern) ==
  /\ Len(pattern) = 3
  /\ pattern[1] \in {"m", "M"} /\ pattern[2] \in {"p", "P"} /\ pattern[3] = "4"
HasMp4(patterns) == \E i \in 1..Len(patterns) : IsMp4(patterns[i])

\* C27: the watch_patterns of a constructed VideoSource hold an entry equal to
\* "mp4" in some case; they are the configured patterns as they were when one
\* of them is such an entry, and the configured patterns followed by "mp4"
\* when none is, so a list that went through construction gains nothing more.
C27_CanonicalWatched ==
  Constructed =>
    /\ HasMp4(ret.watch_patterns)
    /\ HasMp4(arg.watch_patterns) => ret.watch_patterns = arg.watch_patterns
    /\ ~HasMp4(arg.watch_patterns)
         => ret.watch_patterns = Append(arg.watch_patterns, <<"m", "p", "4">>)
    /\ WatchPatterns(ret.watch_patterns) = ret.watch_patterns

\* "Mp4" was configured and nothing was appended
C27_Witness ==
  /\ Constructed
  /\ arg.watch_patterns = << <<"a", "v", "i">>, <<"M", "p", "4">> >>
  /\ ret.watch_patterns = arg.watch_patterns

\* ---------------------------------------------------------------------- C28
\* both runs passed the filter with the same candidate and committed their upsert
BothUpserted ==
  /\ Len(procs) = 2
  /\ procs[1].pc = "done" /\ procs[2].pc = "done"
  /\ procs[1].file = procs[2].file
RowsOf(path) == {k \in 1..Len(store) : store[k].path = path}
LastWriter == writes[Len(writes)].by

\* C28: when two runs pass the dedup filter for the same path and upsert it
\* concurrently, then however their steps interleave the store ends with one
\* record for that path, and its summary and its embedding are both those of
\* the run that committed last.
C28_LastWriteWins ==
  BothUpserted
    => /\ Cardinality(RowsOf(OutputFile(procs[1].file))) = 1
       /\ \A k \in RowsOf(OutputFile(procs[1].file)) :
            /\ store[k].summary = procs[LastWriter].summary
            /\ store[k].embedding = Encode(procs[LastWriter].summary)

\* run 2 passed the filter first, run 1 committed last, with another summary
C28_Witness ==
  /\ BothUpserted
  /\ procs[1].summary # procs[2].summary
  /\ Len(writes) = 2 /\ LastWriter = 1

\* ---------------------------------------------------------------------- C29
Searched == arg.fn = "query_videos"

\* C29: an upsert of build_index that cannot reach the store returns without
\* writing and without raising, so the stage goes on to the next pair or
\* returns and the run ends Done; a search that cannot reach the store
\* returns the empty list.
C29_StoreDownSafe ==
  /\ [](ok.stored = "down" => pc \in {"Indexing", "Done"})
  /\ []((pc = "Indexing" /\ ok.stored = "down") => ixpc \in {"summarize", "returned"})
  /\ [][(ixpc = "store" /\ ok'.stored = "down")
          => store' = store /\ writes' = writes /\ ixI' = ixI + 1]_vars
  /\ []((Searched /\ arg.db = "down") => ret = [kind |-> "paths", val |-> <<>>])

\* the filter was answered, both upserts found the store unreachable, the run
\* ended Done with no row written, and a search then got the empty list
C29_Witness ==
  /\ pc = "Done" /\ ok.dedup /\ ok.stored = "down"
  /\ ixI = 3 /\ writes = <<>> /\ store = <<>>
  /\ Searched /\ arg.db = "down" /\ ret.val = <<>>

\* ---------------------------------------------------------------------- C30
\* execution i is between its DROP INDEX and the end of its CREATE INDEX
InSection(i) == procs[i].pc \in {"drop", "create"}
TwoExecutions == Len(procs) = 2 /\ procs[1].pc \in {"lock", "read", "drop", "create", "exit", "ended"}

\* C30: of two concurrent executions of ensure_schema at most one is in the
\* section that drops and recreates the ivfflat index, the rows of the videos
\* table stay as they were, and an execution that has ended holds no lock.
C30_LockExclusion ==
  TwoExecutions
    => /\ ~(InSection(1) /\ InSection(2))
       /\ store = store0
       /\ \A i \in 1..2 : procs[i].pc = "ended" => pg.lock # i

\* ---------------------------------------------------------------------- C31
\* the subtitle written for a converted file: its path with srt for mp4
SubtitleOf(p) == SubSeq(p, 1, Len(p) - 3) \o <<"s", "r", "t">>
\* the video whose transcript the subtitle file s holds: the last one of the
\* batch that whisper transcribed into s
Producer(s) ==
  LET Wrote(i) == trLog[i] = "ok" /\ SubtitleOf(trIn[i]) = s
  IN trIn[CHOOSE i \in 1..Len(trLog) :
            Wrote(i) /\ \A j \in (i + 1)..Len(trLog) : ~Wrote(j)]

\* C31: in a run that has reached Indexing, build_index holds as many
\* transcripts as converted files, the transcript at each position is the
\* subtitle of the converted file at that position and holds what was
\* transcribed from that file, and every row written is stored under one of
\* those converted files, whatever was dropped by the conversion before.
C31_IdentityPairing ==
  pc = "Indexing"
    => /\ ixVideos = converted_files /\ ixTrans = transcription_files
       /\ Len(ixTrans) = Len(ixVideos)
       /\ \A i \in 1..Len(ixVideos) :
            /\ ixTrans[i] = SubtitleOf(ixVideos[i])
            /\ Producer(ixTrans[i]) = ixVideos[i]
       /\ \A k \in 1..Len(writes) : writes[k].path \in Range(ixVideos)

\* ---------------------------------------------------------------------- C32
\* C32: build_index handles the pairs in input order, one at a time: a
\* summarization starts only at the first pair when the loop is entered, or
\* at pair i+1 once the upsert of pair i has completed; the upsert of pair i
\* follows the summarization of pair i, which writes nothing; and the row
\* upserted for pair i is (videos[i], the summary just made, its embedding).
C32_IndexingOrder ==
  [][ /\ (ixpc' = "summarize" /\ ixpc # "summarize")
           => \/ ixpc = "called" /\ ixI' = 1 /\ writes' = writes
              \/ /\ ixpc = "store" /\ ixI' = ixI + 1 /\ ixI' <= Len(ixTrans)
                 /\ ok'.stored \in {"up", "down"}
      /\ (ixpc' = "store" /\ ixpc # "store")
           => /\ ixpc = "summarize" /\ ixI' = ixI /\ ixI <= Len(ixTrans)
              /\ store' = store /\ writes' = writes
              /\ ixSummary' # <<>>
      /\ (writes' # writes \/ store' # store)
           => /\ ixpc = "store"
              /\ writes' = Append(writes, [path |-> ixVideos[ixI], summary |-> ixSummary,
                                           embedding |-> Encode(ixSummary)])
              /\ store' = Upsert(store, ixVideos[ixI], ixSummary, Encode(ixSummary))
      /\ (ixpc' = "returned" /\ ixpc = "store") => ixI' = Len(ixTrans) + 1
    ]_vars

\* the second pair is summarized after the row of the first was committed
C32_Witness ==
  /\ pc = "Direct" /\ ixpc = "store" /\ ixI = 2
  /\ Len(writes) = 1 /\ writes[1].path = ixVideos[1]

\* ---------------------------------------------------------------------- C33
C33_Absent(p) == ~HasPath(store, p)

\* C33: during Filtering each query moves to the next candidate, writes
\* nothing to the store and either keeps the candidate at the end of the list
\* or, the store holding its path, leaves it out; when every query reached
\* the store, the list is exactly the candidates seen so far that the store
\* does not hold, in scan order; and the list passed on to the next stage is
\* that list, once every candidate has been queried.
C33_DedupFilterResult ==
  /\ []((pc = "Filtering" /\ ok.dedup)
          => fltOut = SelectSeq(SubSeq(scanned, 1, fltI - 1), C33_Absent))
  /\ [][(pc = "Filtering" /\ fltI' # fltI)
          => /\ fltI' = fltI + 1 /\ fltI <= Len(scanned)
             /\ store' = store /\ writes' = writes
             /\ \/ fltOut' = Append(fltOut, scanned[fltI])
                \/ fltOut' = fltOut /\ HasPath(store, scanned[fltI])]_vars
  /\ [][(pc = "Filtering" /\ pc' \notin {"Filtering", "Raised"})
          => /\ fltI = Len(scanned) + 1
             /\ all_video_files' = fltOut
             /\ store' = store /\ writes' = writes]_vars

\* a run whose filter left out one candidate and kept another
C33_Witness ==
  /\ pc = "PausedBeforeConvert" /\ ok.dedup
  /\ all_video_files # <<>> /\ Len(all_video_files) < Len(scanned)

\* ---------------------------------------------------------------------- C34
\* the subtitle paths of a transcribe_to_srt call with output_dir configured
Targeted == arg.fn = "transcribe_to_srt" /\ arg.config.output_dir # <<>>
Srt == <<".", "s", "r", "t">>
\* path without its last four characters (".mp4")
Unsuffixed(v) == SubSeq(v, 1, Len(v) - 4)
\* path after root and the separator that follows it
Below(root, v) == SubSeq(v, Len(root) + 2, Len(v))
\* the path reached by resolving the ".." names of p
RECURSIVE Resolved(_, _)
Resolved(done, rest) ==
  IF rest = <<>> THEN done
  ELSE IF rest[1] = <<".", ".">>
    THEN Resolved(SubSeq(done, 1, Len(done) - 1), Tail(rest))
  ELSE Resolved(Append(done, rest[1]), Tail(rest))
WithinDir(directory, p) ==
  LET d == Parts(directory)
      r == Resolved(<<>>, Parts(p))
  IN Len(r) > Len(d) /\ SubSeq(r, 1, Len(d)) = d

\* C34: with output_dir configured, preserve_tree on and some source root a
\* directory prefix of the video, the base chosen is such a root and the
\* subtitle is output_dir joined with the video's path below that root, srt
\* for its extension, a path inside output_dir; with preserve_tree off or no
\* root a directory prefix, the subtitle is output_dir/<stem of the basename>.srt.
C34_SourceBase ==
  Targeted =>
    \A i \in 1..Len(arg.video_files) :
      LET v == arg.video_files[i]
          t == ret.val[i]
          out == arg.config.output_dir
      IN IF arg.config.preserve_tree /\ \E k \in 1..Len(arg.roots) : Under(arg.roots[k], v)
           THEN /\ t.base \in Range(arg.roots) /\ Under(t.base, v)
                /\ t.srt_file = out \o <<"/">> \o Unsuffixed(Below(t.base, v)) \o Srt
                /\ WithinDir(out, t.srt_file)
           ELSE t.srt_file = out \o <<"/">> \o Unsuffixed(NameOf(v)) \o Srt

\* ---------------------------------------------------------------------- C35
\* the run is past the call of the stage method named
AfterConvertCall ==
  pc \in {"Converting", "PausedBeforeTranscribe", "Transcribing", "AlignmentCheck",
          "PausedBeforeIndex", "Indexing"}
AfterTranscribeCall == pc \in {"Transcribing", "AlignmentCheck", "PausedBeforeIndex", "Indexing"}

\* C35: each stage method leaves the list it was called with as it was, the
\* list handed to build_index is the list convert_videos returned and
\* transcribe_to_srt was called with, and once a stage has returned its
\* output list no later step of the run changes it.
C35_OneWayFlow ==
  /\ [](pc = "Converting" => cvIn = all_video_files)
  /\ [](pc \in {"Transcribing", "AlignmentCheck", "PausedBeforeIndex"}
          => trIn = converted_files)
  /\ [](pc = "Indexing"
          => /\ ixVideos = converted_files /\ ixVideos = trIn
             /\ ixTrans = transcription_files)
  /\ [][ /\ AfterConvertCall
             => all_video_files' = all_video_files /\ cvIn' = cvIn
         /\ (AfterTranscribeCall \/ pc = "PausedBeforeTranscribe")
             => converted_files' = converted_files
         /\ AfterTranscribeCall => trIn' = trIn
         /\ pc \in {"AlignmentCheck", "PausedBeforeIndex", "Indexing"}
             => transcription_files' = transcription_files
         /\ pc = "Indexing" => ixVideos' = ixVideos /\ ixTrans' = ixTrans ]_vars

\* build_index at work on a list shorter than the one convert_videos received
C35_Witness ==
  /\ pc = "Indexing" /\ ixpc = "store"
  /\ Len(converted_files) < Len(all_video_files)
  /\ converted_files # all_video_files

\* ---------------------------------------------------------------------- C36
\* C36: in one transcribe_to_srt batch, whatever output_dir and preserve_tree
\* are, two different input videos get different subtitle paths and different
\* temporary audio paths.
C36_DistinctArtifacts ==
  arg.fn = "transcribe_to_srt"
    => \A i, j \in 1..Len(arg.video_files) :
         arg.video_files[i] # arg.video_files[j]
           => /\ ret.val[i].srt_file # ret.val[j].srt_file
              /\ ret.val[i].audio_file # ret.val[j].audio_file

\* ---------------------------------------------------------------------- C37
\* the inputs of the batch whose conversion has reached the encoder, and
\* those a pool thread is converting now
Written == {i \in 1..Len(fut) : fut[i].o \in EncoderOutcomes}
BeingWritten == {i \in 1..Len(fut) : fut[i].st = "running" /\ ~IsCanonical(cvIn[i])}

\* C37: in one convert_videos batch no conversion writes a file that is an
\* input of the batch, no two conversions write the same output file, and no
\* two pool threads are writing the same output file at the same time.
C37_NoWriteConflict ==
  /\ \A i \in Written : OutputFile(cvIn[i]) \notin Range(cvIn)
  /\ \A i, j \in Written : i # j => OutputFile(cvIn[i]) # OutputFile(cvIn[j])
  /\ \A i, j \in BeingWritten : i # j => OutputFile(cvIn[i]) # OutputFile(cvIn[j])

\* ---------------------------------------------------------------------- C38
\* C38: the list run passes to convert_videos holds each path at most once,
\* so no file is encoded twice and no path is stored twice in one run.
C38_NoDuplicateWork ==
  /\ pc = "Converting" => \A p \in Range(cvIn) : Count(cvIn, p) = 1
  /\ pc = "Indexing" => \A p \in Range(ixVideos) : Count(ixVideos, p) = 1

\* ---------------------------------------------------------------------- C39
\* C39: every path convert_videos returns ends in .mp4 in some case, the
\* extractor accepts every file of the list run passes to transcribe_to_srt,
\* and transcribe_to_srt is never left by the extractor's ValueError in a run.
C39_ConvertedCanonical ==
  /\ cvpc = "returned" => \A k \in 1..Len(results) : EndsInMp4(results[k])
  /\ pc \in {"PausedBeforeTranscribe", "Transcribing"}
       => \A k \in 1..Len(converted_files) :
            EndsInMp4(converted_files[k]) /\ ~RejectedByExtractor(converted_files[k])
  /\ pc = "Transcribing" => trpc # "raised"

\* a re-encoded file and a passed-through upper-case one were transcribed
C39_Witness ==
  /\ pc = "Transcribing" /\ trpc = "returned"
  /\ \E k \in 1..Len(trIn) : trIn[k] = OutputFile(P_c)
  /\ \E k \in 1..Len(trIn) : trIn[k] = P_B
  /\ P_c \in Range(all_video_files)

\* ---------------------------------------------------------------------- C40
\* a step that committed an upsert, and the path it was for
Committed == Len(writes') = Len(writes) + 1
Upserted == writes'[Len(writes')].path

\* C40: the store changes only when an upsert commits; an upsert for path p
\* leaves the row of every other path as it was, adds one row when p was
\* absent and none when p was present, and leaves p present; no step removes
\* the row of any path.
C40_UpsertFrame ==
  [][ /\ store' # store => Committed
      /\ Committed
           => /\ \A k \in 1..Len(store) :
                   store[k].path # Upserted => store'[k] = store[k]
              /\ Len(store') = Len(store) + (IF HasPath(store, Upserted) THEN 0 ELSE 1)
              /\ HasPath(store', Upserted)
      /\ Len(store') >= Len(store)
      /\ \A k \in 1..Len(store) : HasPath(store', store[k].path) ]_vars

\* a path upserted a second time beside the row of another path
C40_Witness ==
  /\ Len(writes) >= 3 /\ Len(store) = 2
  /\ writes[Len(writes)].path = store[1].path
  /\ \E k \in 1..(Len(writes) - 1) : writes[k].path = store[1].path

====
